---- MODULE Spec2Model ----
(***************************************************************************)
(* Model of the client code of ABList: the per-symbol detail view and the  *)
(* list page.                                                              *)
(*                                                                         *)
(*   SpecInd : the client-side indicator functions of                      *)
(*             static/js/stock_detail.js (computeSMA, computeEMA,          *)
(*             computeRSI), applied to bounded input series.               *)
(*   Spec    : the asynchronous refresh pipeline of static/js/detail.js    *)
(*             (loadHistory, refreshAllOverlays, the overlay form,         *)
(*             loadRsi), one action per handler step between two awaits.   *)
(*   SpecZoom, SpecZoomFactor : the viewport of the price chart            *)
(*             (manualZoom, manualResetZoom) with the history pipeline.    *)
(*   SpecChart : the chart page of static/js/stock_detail.js, which        *)
(*             prepares the indicator periods from its inputs.             *)
(*   SpecList : the list page of static/js/app.js (add-stock form, price   *)
(*             updates, the refresh timer).                                *)
(*   SpecPrices : the price updates of the list page with the view and     *)
(*             week selectors.                                             *)
(*   SpecSearch : the search box of the list page (unnamed/part_001).      *)
(***************************************************************************)
EXTENDS Integers, Sequences, FiniteSets, TLC

(***************************************************************************)
(* Bounds of the model.                                                    *)
(***************************************************************************)
MaxLen == 4        \* longest input series given to an indicator function
MaxVal == 2        \* prices are drawn from 0..MaxVal
MaxPeriod == 3     \* indicator periods are drawn from 0..MaxPeriod
MaxCmds == 2       \* user commands that issue a fetch (after the initial load)
MaxZooms == 4      \* zoom and pan gestures on the price chart

VARIABLES
  values,          \* indicator input: the closes array
  period,          \* indicator input: the period
  out,             \* the array returned by the last indicator call
  fn,              \* which indicator function produced out ("none" at first)
  currentInterval, \* state.data.currentInterval
  baseHistory,     \* state.data.baseHistory, tagged with the interval it was fetched for
  defaultTimeRange,\* state.data.defaultTimeRange
  xRange,          \* options.scales.x min/max of the price chart
  overlays,        \* state.ui.overlays, in insertion order
  overlayCounter,  \* state.ui.overlayCounter
  chartDatasets,   \* state.charts.price.data.datasets
  rsiToggle,       \* elements.rsiToggle.checked
  rsiPeriodEl,     \* elements.rsiPeriodEl.value
  rsiHidden,       \* elements.rsiWrapper has class "hidden"
  rsiChart,        \* state.charts.rsi (its first dataset), NoChart when null
  inflight,        \* the fetches issued and not yet answered
  nextReq,         \* number of the next fetch (history variable)
  cmds,            \* user commands that issued a fetch so far (history variable)
  rsiIssued,       \* the most recently issued RSI fetch (history variable)
  zooms,           \* zoom and pan gestures so far (history variable)
  lastZoom,        \* the last two manualZoom runs: factor, range before and after (history variable)
  lastAdd,         \* the last overlay added: id, render list and overlays before and after, viewport (history variable)
  dbStocks,        \* the stocks of the displayed list in the server's database
  table,           \* singleListContainer: loader, error box or the rendered rows
  formMessage,     \* formMessage.textContent, with the handler run that wrote it
  addDisabled,     \* the submit button of addStockForm is disabled
  refreshDisabled, \* refreshBtn is disabled
  lastUpdated,     \* lastUpdated.textContent
  timerOn,         \* setInterval(updatePrices, 60000) is armed
  listFetches,     \* the fetches of the list page issued and not yet answered
  listSeq,         \* number of the next fetch of the list page (history variable)
  listRuns,        \* handler runs of the list page that issued a fetch (history variable)
  priceRuns,       \* the handler runs that called updatePrices (history variable)
  searchInput,     \* searchInput.value
  searchTimer,     \* searchTimer: the pending debounce timeout, NoTimer when null
  searchController,\* searchController: the request its AbortController was made for, 0 when null
  searchFetches,   \* the search requests issued whose handler has not finished
  searchList,      \* searchResultsList: hidden, loading, results or error, and for which query
  searchSeq        \* number of the next search request (history variable)

indVars == <<values, period, out, fn>>
viewVars == <<currentInterval, baseHistory, defaultTimeRange, xRange, overlays,
              overlayCounter, chartDatasets, rsiToggle, rsiPeriodEl, rsiHidden,
              rsiChart, inflight, nextReq, cmds, rsiIssued, zooms, lastZoom,
              lastAdd>>
histVars == <<zooms, lastZoom, lastAdd>>
searchVars == <<searchInput, searchTimer, searchController, searchFetches,
                searchList, searchSeq>>
stockVars == <<dbStocks, table, formMessage, addDisabled, refreshDisabled,
               lastUpdated, timerOn, listFetches, listSeq, listRuns, priceRuns>>
listVars == <<stockVars, searchVars>>
vars == <<values, period, out, fn, currentInterval, baseHistory, defaultTimeRange,
          xRange, overlays, overlayCounter, chartDatasets, rsiToggle, rsiPeriodEl,
          rsiHidden, rsiChart, inflight, nextReq, cmds, rsiIssued, zooms,
          lastZoom, lastAdd, dbStocks, table, formMessage, addDisabled,
          refreshDisabled, lastUpdated, timerOn, listFetches, listSeq, listRuns,
          priceRuns, searchInput, searchTimer, searchController, searchFetches,
          searchList, searchSeq>>

(***************************************************************************)
(* JavaScript numbers.  A value is a record [t, n, d]:                     *)
(*   t = "num"  : the rational n/d in lowest terms, d > 0                  *)
(*   t = "null" : null          t = "nan" : NaN                            *)
(*   t = "inf"  : +Infinity (n = 1) or -Infinity (n = -1)                   *)
(*   t = "hole" : an array hole left by an assignment past the length      *)
(***************************************************************************)
Abs(x) == IF x < 0 THEN -x ELSE x

RECURSIVE GCD(_, _)
GCD(a, b) == IF b = 0 THEN a ELSE GCD(b, a % b)

Norm(n, d) ==
  LET g == GCD(Abs(n), Abs(d))
      s == IF d < 0 THEN -1 ELSE 1
  IN  [t |-> "num", n |-> s * ((Abs(n) \div g) * (IF n < 0 THEN -1 ELSE 1)), d |-> Abs(d) \div g]

Num(i) == [t |-> "num", n |-> i, d |-> 1]
Null == [t |-> "null", n |-> 0, d |-> 1]
NaN == [t |-> "nan", n |-> 0, d |-> 1]
Infinity == [t |-> "inf", n |-> 1, d |-> 1]
NegInfinity == [t |-> "inf", n |-> -1, d |-> 1]
Hole == [t |-> "hole", n |-> 0, d |-> 1]

Sign(a) == IF a.n > 0 THEN 1 ELSE IF a.n < 0 THEN -1 ELSE 0

\* a + b on numbers, NaN and the infinities
JAdd(a, b) ==
  IF a.t = "nan" \/ b.t = "nan" THEN NaN
  ELSE IF a.t = "inf" /\ b.t = "inf" THEN (IF a.n = b.n THEN a ELSE NaN)
  ELSE IF a.t = "inf" THEN a
  ELSE IF b.t = "inf" THEN b
  ELSE LET g == GCD(a.d, b.d)
       IN  Norm(a.n * (b.d \div g) + b.n * (a.d \div g), (a.d \div g) * b.d)

JNeg(a) == IF a.t = "nan" THEN NaN ELSE [a EXCEPT !.n = -a.n]

JSub(a, b) == JAdd(a, JNeg(b))

JMul(a, b) ==
  IF a.t = "nan" \/ b.t = "nan" THEN NaN
  ELSE IF a.t = "inf" \/ b.t = "inf"
    THEN (IF Sign(a) * Sign(b) = 0 THEN NaN
          ELSE IF Sign(a) * Sign(b) > 0 THEN Infinity ELSE NegInfinity)
  ELSE LET g == GCD(Abs(a.n), b.d)
           h == GCD(Abs(b.n), a.d)
       IN  Norm((a.n \div g) * (b.n \div h), (a.d \div h) * (b.d \div g))

JDiv(a, b) ==
  IF a.t = "nan" \/ b.t = "nan" THEN NaN
  ELSE IF a.t = "inf" /\ b.t = "inf" THEN NaN
  ELSE IF a.t = "inf" THEN (IF Sign(a) * Sign(b) >= 0 THEN Infinity ELSE NegInfinity)
  ELSE IF b.t = "inf" THEN Num(0)
  ELSE IF b.n = 0
    THEN (IF a.n = 0 THEN NaN ELSE IF a.n > 0 THEN Infinity ELSE NegInfinity)
  ELSE LET g == GCD(Abs(a.n), Abs(b.n))
           h == GCD(a.d, b.d)
       IN  Norm((a.n \div g) * (b.d \div h), (a.d \div h) * (b.n \div g))

\* a > b and a === 0; every comparison with NaN is false
JGt(a, b) ==
  /\ a.t # "nan" /\ b.t # "nan"
  /\ IF a.t = "inf" THEN a.n = 1 /\ b # Infinity
     ELSE IF b.t = "inf" THEN b.n = -1
     ELSE LET g == GCD(a.d, b.d)
          IN  a.n * (b.d \div g) > b.n * (a.d \div g)

JIsZero(a) == a.t = "num" /\ a.n = 0

\* Math.max(a, b)
JMax(a, b) ==
  IF a.t = "nan" \/ b.t = "nan" THEN NaN ELSE IF JGt(b, a) THEN b ELSE a

\* Math.min(a, b)
JMin(a, b) ==
  IF a.t = "nan" \/ b.t = "nan" THEN NaN ELSE IF JGt(a, b) THEN b ELSE a

\* parseInt(text, 10) of an input holding a number or no number at all: the
\* digits before the decimal point, NaN without leading digits
ParseInt(x) ==
  IF x.t # "num" THEN NaN
  ELSE IF x.n >= 0 THEN Num(x.n \div x.d) ELSE Num(-((-x.n) \div x.d))

\* Number.isInteger(x)
IsInteger(x) == x.t = "num" /\ x.d = 1

\* (v == null || isNaN(v))
IsAbsent(v) == v.t \in {"null", "nan", "hole"}

\* v ?? 0 : only null and undefined are replaced, NaN is kept
Nullish0(v) == IF v.t \in {"null", "hole"} THEN Num(0) ELSE v

\* values[i] with the 0-based index of the source; undefined past the end
At(arr, i) == IF i >= 0 /\ i < Len(arr) THEN arr[i + 1] ELSE Hole

\* arr[i] = v with a 0-based index; an index past the end grows the array
\* and leaves holes between the old end and i
SetAt(arr, i, v) ==
  [j \in 1..(IF i + 1 > Len(arr) THEN i + 1 ELSE Len(arr)) |->
     IF j = i + 1 THEN v ELSE IF j <= Len(arr) THEN arr[j] ELSE Hole]

\* new Array(n).fill(null)
NullArray(n) == [j \in 1..n |-> Null]

(***************************************************************************)
(* computeSMA: running sum, add the new value, drop the expired one.       *)
(***************************************************************************)
\* a faulty variant: an absent value empties the running sum
SMAAddGapResets(sum, v) == IF IsAbsent(v) THEN Num(0) ELSE JAdd(sum, v)

\* sum += (v == null || isNaN(v)) ? 0 : v
SMAAdd(sum, v) == JAdd(sum, IF IsAbsent(v) THEN Num(0) ELSE v)

\* a faulty variant: the expired value is dropped one step late
SMAExpireLate(vals, p, i, sum) ==
  IF i > p
    THEN LET remove == At(vals, i - p - 1)
         IN  JSub(sum, IF IsAbsent(remove) THEN Num(0) ELSE remove)
    ELSE sum

\* if (i >= period) sum -= values[i - period] (0 when absent)
SMAExpire(vals, p, i, sum) ==
  IF i >= p
    THEN LET remove == At(vals, i - p)
         IN  JSub(sum, IF IsAbsent(remove) THEN Num(0) ELSE remove)
    ELSE sum

RECURSIVE SMALoop(_, _, _, _, _)
SMALoop(vals, p, i, sum, acc) ==
  IF i >= Len(vals) THEN acc
  ELSE
    LET s2 == SMAExpire(vals, p, i, SMAAdd(sum, At(vals, i)))
        acc2 == IF i >= p - 1 THEN SetAt(acc, i, JDiv(s2, Num(p))) ELSE acc
    IN  SMALoop(vals, p, i + 1, s2, acc2)

computeSMA(vals, p) ==
  IF p <= 1 THEN NullArray(Len(vals))
  ELSE SMALoop(vals, p, 0, Num(0), NullArray(Len(vals)))

(***************************************************************************)
(* computeEMA: k = 2/(period+1), seeded with the first non-null value.     *)
(***************************************************************************)
EMAFactor(p) == JDiv(Num(2), JAdd(Num(p), Num(1)))

\* prev == null: "Seed EMA with first non-null value"
EMASeed(vals, p, i, v) == v

\* a faulty variant: the two weights are swapped
EMAStepSwapped(v, prev, k) == JAdd(JMul(prev, k), JMul(v, JSub(Num(1), k)))

\* prev = v * k + prev * (1 - k)
EMAStep(v, prev, k) == JAdd(JMul(v, k), JMul(prev, JSub(Num(1), k)))

\* a faulty variant: a gap forgets the running value
EMAGapReset(prev) == Null

\* v == null || isNaN(v): out[i] = prev, and prev is left as it is
EMAGap(prev) == prev

RECURSIVE EMALoop(_, _, _, _, _)
EMALoop(vals, p, i, prev, acc) ==
  IF i >= Len(vals) THEN acc
  ELSE
    LET v == At(vals, i)
    IN  IF IsAbsent(v)
          THEN EMALoop(vals, p, i + 1, EMAGap(prev), SetAt(acc, i, EMAGap(prev)))
          ELSE
            LET nxt == IF prev = Null
                         THEN EMASeed(vals, p, i, v)
                         ELSE EMAStep(v, prev, EMAFactor(p))
            IN  EMALoop(vals, p, i + 1, nxt, SetAt(acc, i, nxt))

computeEMA(vals, p) ==
  IF p <= 1 THEN NullArray(Len(vals))
  ELSE EMALoop(vals, p, 0, Null, NullArray(Len(vals)))

(***************************************************************************)
(* computeRSI: Wilder's RSI.                                               *)
(***************************************************************************)
Change(vals, i) == JSub(Nullish0(At(vals, i)), Nullish0(At(vals, i - 1)))

\* the initialisation loop: for (i = 1; i <= period && i < length; i++)
RECURSIVE RSIInit(_, _, _, _, _)
RSIInit(vals, p, i, avgGain, avgLoss) ==
  IF ~(i <= p /\ i < Len(vals)) THEN <<avgGain, avgLoss>>
  ELSE
    LET change == Change(vals, i)
    IN  IF JGt(change, Num(0))
          THEN RSIInit(vals, p, i + 1, JAdd(avgGain, change), avgLoss)
          ELSE RSIInit(vals, p, i + 1, avgGain, JSub(avgLoss, change))

\* out[period]: avgLoss === 0 is answered with 100
RSIFirst(avgGain, avgLoss) ==
  IF JIsZero(avgLoss) THEN Num(100)
  ELSE JSub(Num(100), JDiv(Num(100), JAdd(Num(1), JDiv(avgGain, avgLoss))))

\* a faulty variant: no guard on avgLoss === 0
RSINextNoGuard(avgGain, avgLoss) ==
  JSub(Num(100), JDiv(Num(100), JAdd(Num(1), JDiv(avgGain, avgLoss))))

\* out[i], i > period: avgLoss === 0 gives rs = Infinity
RSINext(avgGain, avgLoss) ==
  LET rs == IF JIsZero(avgLoss) THEN Infinity ELSE JDiv(avgGain, avgLoss)
  IN  JSub(Num(100), JDiv(Num(100), JAdd(Num(1), rs)))

RECURSIVE RSILoop(_, _, _, _, _, _)
RSILoop(vals, p, i, avgGain, avgLoss, acc) ==
  IF i >= Len(vals) THEN acc
  ELSE
    LET change == Change(vals, i)
        gain == JMax(Num(0), change)
        loss == JMax(Num(0), JNeg(change))
        g2 == JDiv(JAdd(JMul(avgGain, Num(p - 1)), gain), Num(p))
        l2 == JDiv(JAdd(JMul(avgLoss, Num(p - 1)), loss), Num(p))
    IN  RSILoop(vals, p, i + 1, g2, l2, SetAt(acc, i, RSINext(g2, l2)))

\* a faulty variant: the sums of the first period are not divided
InitialAverageUndivided(sum, p) == sum

\* avgGain /= period; avgLoss /= period
InitialAverage(sum, p) == JDiv(sum, Num(p))

computeRSI(vals, p) ==
  IF p <= 1 THEN NullArray(Len(vals))
  ELSE
    LET sums == RSIInit(vals, p, 1, Num(0), Num(0))
        avgGain == InitialAverage(sums[1], p)
        avgLoss == InitialAverage(sums[2], p)
        first == SetAt(NullArray(Len(vals)), p, RSIFirst(avgGain, avgLoss))
    IN  RSILoop(vals, p, p + 1, avgGain, avgLoss, first)

(***************************************************************************)
(* SpecInd: an input series and a period are chosen, then the indicator    *)
(* functions are called on them, in any order and any number of times.     *)
(***************************************************************************)
InputValues == {Num(i) : i \in 0..MaxVal} \cup {Null, NaN}

RECURSIVE SeqsUpTo(_, _)
SeqsUpTo(S, n) ==
  IF n = 0 THEN {<<>>}
  ELSE LET shorter == SeqsUpTo(S, n - 1)
       IN  shorter \cup {Append(s, x) : s \in {t \in shorter : Len(t) = n - 1}, x \in S}

\* a fetch: its number, what it asks for (history, the indicator of a new
\* overlay, the recompute of overlay ov, RSI), the interval and period in
\* its URL, and the caller state its continuation needs
Req(id, kind, iv, ov, type, window, auto, batch) ==
  [id |-> id, kind |-> kind, iv |-> iv, ov |-> ov, type |-> type,
   window |-> window, auto |-> auto, batch |-> batch]

NoReq == Req(0, "none", "none", 0, "none", 0, FALSE, 0)

\* no bounds on the x scale; a null default range
NoRange == [min |-> Null, max |-> Null]
NoZoom == [factor |-> Null, before |-> NoRange, after |-> NoRange, def |-> NoRange,
           prev |-> [factor |-> Null, before |-> NoRange, after |-> NoRange,
                     def |-> NoRange]]
NoAdd == [ov |-> 0, before |-> <<>>, after |-> <<>>, ovsBefore |-> <<>>,
          ovsAfter |-> <<>>, range |-> NoRange]

\* the detail view is not running while the indicator functions are exercised
\* the list page before its script ran
NoListMessage == [text |-> "", run |-> 0]
\* the search box of the list page before anything is typed
NoTimer == [kind |-> "none", query |-> ""]
hiddenList == [state |-> "hidden", query |-> ""]
SearchIdle ==
  /\ searchInput = ""
  /\ searchTimer = NoTimer
  /\ searchController = 0
  /\ searchFetches = {}
  /\ searchList = hiddenList
  /\ searchSeq = 1

ListIdle ==
  /\ SearchIdle
  /\ dbStocks = <<>>
  /\ table = [state |-> "empty", rows |-> <<>>]
  /\ formMessage = NoListMessage
  /\ addDisabled = FALSE
  /\ refreshDisabled = FALSE
  /\ lastUpdated = ""
  /\ timerOn = FALSE
  /\ listFetches = {}
  /\ listSeq = 1
  /\ listRuns = 0
  /\ priceRuns = {}

ViewIdle ==
  /\ currentInterval = "1d"
  /\ baseHistory = [iv |-> "none", points |-> <<>>]
  /\ defaultTimeRange = NoRange
  /\ xRange = NoRange
  /\ overlays = <<>>
  /\ overlayCounter = 1
  /\ chartDatasets = <<>>
  /\ rsiToggle = FALSE
  /\ rsiPeriodEl = Num(1)
  /\ rsiHidden = TRUE
  /\ rsiChart = [period |-> 0, iv |-> "none", req |-> 0]
  /\ inflight = {}
  /\ nextReq = 1
  /\ cmds = 0
  /\ rsiIssued = NoReq
  /\ zooms = 0
  /\ lastZoom = NoZoom
  /\ lastAdd = NoAdd

InitInd ==
  /\ values \in SeqsUpTo(InputValues, MaxLen)
  /\ period \in 0..MaxPeriod
  /\ out = <<>>
  /\ fn = "none"
  /\ ViewIdle
  /\ ListIdle

CallSMA ==
  /\ out' = computeSMA(values, period)
  /\ fn' = "sma"
  /\ UNCHANGED <<values, period>>
  /\ UNCHANGED <<viewVars, listVars>>

CallEMA ==
  /\ out' = computeEMA(values, period)
  /\ fn' = "ema"
  /\ UNCHANGED <<values, period>>
  /\ UNCHANGED <<viewVars, listVars>>

CallRSI ==
  /\ out' = computeRSI(values, period)
  /\ fn' = "rsi"
  /\ UNCHANGED <<values, period>>
  /\ UNCHANGED <<viewVars, listVars>>

NextInd == CallSMA \/ CallEMA \/ CallRSI

SpecInd == InitInd /\ [][NextInd]_vars

(***************************************************************************)
(* The detail view (static/js/detail.js).                                  *)
(*                                                                         *)
(* Every fetch is a record in inflight from the moment it is issued until  *)
(* its response (or failure) is handled.  A handler runs without           *)
(* interruption from one await to the next, so each action below is one    *)
(* such run: a user event up to its first fetch, or the arrival of a       *)
(* response up to the next fetch or the end of the handler.                *)
(***************************************************************************)
Intervals == {"1d", "1wk"}
OverlayTypes == {"sma", "ema"}
\* the periods typed into the overlay form and into the RSI period input
WindowInputs == {Num(0), Num(20)}
RsiPeriodInputs == {Num(1), Num(14), Norm(43, 2)}

NoHistory == [iv |-> "none", points |-> <<>>]
NoChart == [period |-> 0, iv |-> "none", req |-> 0]

\* the dates of the points the provider returns for an interval, counted in
\* days: daily and weekly closes, two intraday closes half a day apart, and
\* a series of a single point
HistoryPoints(iv) ==
  IF iv = "1d" THEN <<Num(1), Num(2), Num(3)>>
  ELSE IF iv = "1wk" THEN <<Num(1), Num(8)>>
  ELSE IF iv = "1h" THEN <<Num(1), Norm(3, 2)>>
  ELSE <<Num(1)>>

HistoryReq(id, iv) == Req(id, "history", iv, 0, "price", 0, FALSE, 0)

\* fetchIndicatorData(type, period): the URL carries the interval current
\* at the moment the fetch is issued
IndicatorReq(id, kind, ov, type, window, batch) ==
  Req(id, kind, currentInterval, ov, type, window, FALSE, batch)

SeqMin(sq) ==
  CHOOSE x \in {sq[i] : i \in 1..Len(sq)} : \A j \in 1..Len(sq) : ~JGt(x, sq[j])
SeqMax(sq) ==
  CHOOSE x \in {sq[i] : i \in 1..Len(sq)} : \A j \in 1..Len(sq) : ~JGt(sq[j], x)

computeDefaultRange(points) ==
  IF Len(points) = 0 THEN NoRange
  ELSE IF ~JGt(SeqMax(points), SeqMin(points)) THEN NoRange
  ELSE [min |-> SeqMin(points), max |-> SeqMax(points)]

\* buildOverlayDataset(def, values): the values are those of request r
BuildOverlayDataset(id, r) ==
  [ov |-> id, type |-> r.type, window |-> r.window, iv |-> r.iv, req |-> r.id]

PriceDataset(base) ==
  [ov |-> 0, type |-> "price", window |-> 0, iv |-> base.iv, req |-> 0]

\* a render that lists the newest overlay first
RenderDatasetsNewestFirst(base, ovs) ==
  <<PriceDataset(base)>> \o [k \in 1..Len(ovs) |-> ovs[Len(ovs) + 1 - k].dataset]

\* the dataset list updatePriceChart builds: the price series, then the
\* dataset of every overlay in the order of the overlays map
RenderDatasets(base, ovs) ==
  <<PriceDataset(base)>> \o [k \in 1..Len(ovs) |-> ovs[k].dataset]

\* a reset that recomputes the default range and leaves the scale alone
UpdatePriceChartKeepsZoom(base, ovs) ==
  /\ chartDatasets' = RenderDatasets(base, ovs)
  /\ defaultTimeRange' = computeDefaultRange(base.points)
  /\ UNCHANGED xRange

\* updatePriceChart() with shouldResetZoom set: the default range is
\* recomputed and the scale is reset to it (manualResetZoom)
UpdatePriceChartReset(base, ovs) ==
  /\ chartDatasets' = RenderDatasets(base, ovs)
  /\ defaultTimeRange' = computeDefaultRange(base.points)
  /\ xRange' = computeDefaultRange(base.points)

\* a render that drops the zoom: the scale goes back to the default range
UpdatePriceChartDropsZoom(base, ovs) ==
  /\ chartDatasets' = RenderDatasets(base, ovs)
  /\ xRange' = defaultTimeRange
  /\ UNCHANGED defaultTimeRange

\* updatePriceChart() with shouldResetZoom clear
UpdatePriceChart(base, ovs) ==
  /\ chartDatasets' = RenderDatasets(base, ovs)
  /\ UNCHANGED <<defaultTimeRange, xRange>>

\* loadRsi(autoToggle) up to its fetch: the requests it issues, none when
\* the period input is rejected
LoadRsiRequests(id, auto) ==
  LET p == ParseInt(rsiPeriodEl)
  IN  IF ~IsInteger(p) \/ p.n <= 1 THEN {}
      ELSE {Req(id, "rsi", currentInterval, 0, "rsi", p.n, auto, 0)}

\* the end of loadHistory, after refreshAllOverlays: loadRsi(true) when
\* the toggle is checked
AfterRefreshRequests(id, toggle) ==
  IF toggle THEN LoadRsiRequests(id, TRUE) ELSE {}

IssueAll(finished, new) ==
  /\ cmds' = IF finished = {} /\ new # {} THEN cmds + 1 ELSE cmds
  /\ inflight' = (inflight \ finished) \cup new
  /\ nextReq' = nextReq + Cardinality(new)
  /\ rsiIssued' = IF \E q \in new : q.kind = "rsi"
                    THEN CHOOSE q \in new : q.kind = "rsi"
                    ELSE rsiIssued

HasOverlay(ovs, id) == \E k \in 1..Len(ovs) : ovs[k].id = id

\* refreshAllOverlays() up to its await: one indicator fetch per overlay
RefreshRequests(batch) ==
  {IndicatorReq(nextReq + k - 1, "overlay", overlays[k].id, overlays[k].type,
                overlays[k].window, batch) : k \in 1..Len(overlays)}

InitView ==
  /\ currentInterval = "1d"
  /\ baseHistory = NoHistory
  /\ defaultTimeRange = NoRange
  /\ xRange = NoRange
  /\ overlays = <<>>
  /\ overlayCounter = 1
  /\ chartDatasets = <<>>
  /\ rsiToggle = FALSE
  /\ rsiPeriodEl \in RsiPeriodInputs
  /\ rsiHidden = TRUE
  /\ rsiChart = NoChart
  /\ inflight = {HistoryReq(1, "1d")}
  /\ nextReq = 2
  /\ cmds = 0
  /\ rsiIssued = NoReq
  /\ zooms = 0
  /\ lastZoom = NoZoom
  /\ lastAdd = NoAdd

\* intervalSelect change: a new loadHistory() for the chosen interval
ChangeInterval(iv) ==
  /\ UNCHANGED <<indVars, listVars, histVars>>
  /\ cmds < MaxCmds
  /\ iv # currentInterval
  /\ currentInterval' = iv
  /\ IssueAll({}, {HistoryReq(nextReq, iv)})
  /\ UNCHANGED <<baseHistory, defaultTimeRange, xRange, overlays, overlayCounter,
                 chartDatasets, rsiToggle, rsiPeriodEl, rsiHidden, rsiChart>>

\* loadHistory(): the history response arrived
HistoryLoaded(r) ==
  /\ UNCHANGED <<indVars, listVars, histVars>>
  /\ r \in inflight /\ r.kind = "history"
  /\ baseHistory' = [iv |-> r.iv, points |-> HistoryPoints(r.iv)]
  /\ UpdatePriceChartReset(baseHistory', overlays)
  /\ overlays' = [k \in 1..Len(overlays) |->
                    [overlays[k] EXCEPT !.issued = nextReq + k - 1]]
  /\ IF Len(overlays) = 0
       THEN IssueAll({r}, AfterRefreshRequests(nextReq, rsiToggle))
       ELSE IssueAll({r}, RefreshRequests(r.id))
  /\ UNCHANGED <<currentInterval, overlayCounter, rsiToggle, rsiPeriodEl,
                 rsiHidden, rsiChart>>

\* loadHistory(): the fetch failed, the catch block runs
HistoryFailed(r) ==
  /\ UNCHANGED <<indVars, listVars, histVars>>
  /\ r \in inflight /\ r.kind = "history"
  /\ baseHistory' = NoHistory
  /\ UpdatePriceChartReset(baseHistory', overlays)
  /\ IssueAll({r}, {})
  /\ UNCHANGED <<currentInterval, overlays, overlayCounter, rsiToggle,
                 rsiPeriodEl, rsiHidden, rsiChart>>

\* a faulty variant: the answer to a recompute puts a removed overlay back
OverlaysAfterRecomputeReinserting(ovs, r) ==
  IF HasOverlay(ovs, r.ov)
    THEN [k \in 1..Len(ovs) |->
            IF ovs[k].id = r.ov
              THEN [ovs[k] EXCEPT !.dataset = BuildOverlayDataset(r.ov, r), !.settled = "ok"]
              ELSE ovs[k]]
    ELSE Append(ovs, [id |-> r.ov, type |-> r.type, window |-> r.window,
                      dataset |-> BuildOverlayDataset(r.ov, r),
                      issued |-> r.id, settled |-> "ok", lastError |-> "absent"])

\* the overlay map after the recompute r of one overlay was answered; the
\* overlay object of an overlay removed meanwhile is no longer in the map
OverlaysAfterRecompute(ovs, r) ==
  [k \in 1..Len(ovs) |->
     IF ovs[k].id = r.ov
       THEN [ovs[k] EXCEPT !.dataset = BuildOverlayDataset(r.ov, r), !.settled = "ok"]
       ELSE ovs[k]]

\* a faulty variant: a failed recompute replaces the dataset by an empty one
OverlaysAfterFailureCleared(ovs, r) ==
  [k \in 1..Len(ovs) |->
     IF ovs[k].id = r.ov
       THEN [ovs[k] EXCEPT !.dataset = BuildOverlayDataset(r.ov, r), !.settled = "failed"]
       ELSE ovs[k]]

\* the overlay map after the recompute r of one overlay failed: the promise
\* is rejected and allSettled swallows it
OverlaysAfterFailure(ovs, r) ==
  [k \in 1..Len(ovs) |->
     IF ovs[k].id = r.ov THEN [ovs[k] EXCEPT !.settled = "failed"] ELSE ovs[k]]

\* Promise.allSettled: r is the last pending fetch of its batch
BatchSettled(r) ==
  ~\E q \in inflight \ {r} : q.kind = "overlay" /\ q.batch = r.batch

\* what follows the answer to one recompute: nothing until the batch has
\* settled, then updatePriceChart() and the rest of loadHistory
SettleRecompute(r) ==
  IF BatchSettled(r)
    THEN /\ UpdatePriceChart(baseHistory, overlays')
         /\ IssueAll({r}, AfterRefreshRequests(nextReq, rsiToggle))
    ELSE /\ UNCHANGED <<chartDatasets, defaultTimeRange, xRange>>
         /\ IssueAll({r}, {})

OverlayRecomputed(r) ==
  /\ UNCHANGED <<indVars, listVars, histVars>>
  /\ r \in inflight /\ r.kind = "overlay"
  /\ overlays' = OverlaysAfterRecompute(overlays, r)
  /\ SettleRecompute(r)
  /\ UNCHANGED <<currentInterval, baseHistory, overlayCounter, rsiToggle,
                 rsiPeriodEl, rsiHidden, rsiChart>>

OverlayRecomputeFailed(r) ==
  /\ UNCHANGED <<indVars, listVars, histVars>>
  /\ r \in inflight /\ r.kind = "overlay"
  /\ overlays' = OverlaysAfterFailure(overlays, r)
  /\ SettleRecompute(r)
  /\ UNCHANGED <<currentInterval, baseHistory, overlayCounter, rsiToggle,
                 rsiPeriodEl, rsiHidden, rsiChart>>

\* overlayForm submit: a rejected period raises an alert and nothing else
SubmitOverlay(type, window) ==
  /\ UNCHANGED <<indVars, listVars, histVars>>
  /\ LET p == ParseInt(window)
     IN  IF ~IsInteger(p) \/ p.n <= 0
           THEN UNCHANGED <<inflight, nextReq, cmds, rsiIssued>>
           ELSE /\ cmds < MaxCmds
                /\ IssueAll({}, {IndicatorReq(nextReq, "add", 0, type, p.n, 0)})
  /\ UNCHANGED <<currentInterval, baseHistory, defaultTimeRange, xRange, overlays,
                 overlayCounter, chartDatasets, rsiToggle, rsiPeriodEl, rsiHidden,
                 rsiChart>>

\* an add that numbers the overlay by the size of the map
OverlayAddedIdFromSize(r) ==
  /\ UNCHANGED <<indVars, listVars, zooms, lastZoom>>
  /\ r \in inflight /\ r.kind = "add"
  /\ overlayCounter' = overlayCounter + 1
  /\ overlays' = Append(overlays,
       [id |-> Len(overlays) + 1, type |-> r.type, window |-> r.window,
        dataset |-> BuildOverlayDataset(Len(overlays) + 1, r),
        issued |-> r.id, settled |-> "none", lastError |-> "absent"])
  /\ UpdatePriceChart(baseHistory, overlays')
  /\ lastAdd' = [ov |-> Len(overlays) + 1, before |-> chartDatasets,
                 after |-> chartDatasets', ovsBefore |-> overlays,
                 ovsAfter |-> overlays', range |-> xRange]
  /\ IssueAll({r}, {})
  /\ UNCHANGED <<currentInterval, baseHistory, rsiToggle, rsiPeriodEl, rsiHidden,
                 rsiChart>>

\* overlayForm submit: the indicator values arrived
OverlayAdded(r) ==
  /\ UNCHANGED <<indVars, listVars, zooms, lastZoom>>
  /\ r \in inflight /\ r.kind = "add"
  /\ overlayCounter' = overlayCounter + 1
  /\ overlays' = Append(overlays,
       [id |-> overlayCounter, type |-> r.type, window |-> r.window,
        dataset |-> BuildOverlayDataset(overlayCounter, r),
        issued |-> r.id, settled |-> "none", lastError |-> "absent"])
  /\ UpdatePriceChart(baseHistory, overlays')
  /\ lastAdd' = [ov |-> overlayCounter, before |-> chartDatasets,
                 after |-> chartDatasets', ovsBefore |-> overlays,
                 ovsAfter |-> overlays', range |-> xRange]
  /\ IssueAll({r}, {})
  /\ UNCHANGED <<currentInterval, baseHistory, rsiToggle, rsiPeriodEl, rsiHidden,
                 rsiChart>>

\* a faulty variant: the id is taken before the fetch is known to have worked
OverlayAddFailedConsumesId(r) ==
  /\ UNCHANGED <<indVars, listVars, histVars>>
  /\ r \in inflight /\ r.kind = "add"
  /\ overlayCounter' = overlayCounter + 1
  /\ IssueAll({r}, {})
  /\ UNCHANGED <<currentInterval, baseHistory, defaultTimeRange, xRange, overlays,
                 chartDatasets, rsiToggle, rsiPeriodEl, rsiHidden, rsiChart>>

\* overlayForm submit: the indicator fetch failed (alert only)
OverlayAddFailed(r) ==
  /\ UNCHANGED <<indVars, listVars, histVars>>
  /\ r \in inflight /\ r.kind = "add"
  /\ IssueAll({r}, {})
  /\ UNCHANGED <<currentInterval, baseHistory, defaultTimeRange, xRange, overlays,
                 overlayCounter, chartDatasets, rsiToggle, rsiPeriodEl, rsiHidden,
                 rsiChart>>

\* a Remove handler that deletes the overlay and does not redraw
RemoveOverlayNoRender(id) ==
  /\ UNCHANGED <<indVars, listVars, histVars>>
  /\ HasOverlay(overlays, id)
  /\ overlays' = SelectSeq(overlays, LAMBDA o : o.id # id)
  /\ UNCHANGED <<currentInterval, baseHistory, defaultTimeRange, xRange,
                 overlayCounter, chartDatasets, rsiToggle, rsiPeriodEl, rsiHidden,
                 rsiChart, inflight, nextReq, cmds, rsiIssued>>

\* the Remove button of an overlay list item
RemoveOverlay(id) ==
  /\ UNCHANGED <<indVars, listVars, histVars>>
  /\ HasOverlay(overlays, id)
  /\ overlays' = SelectSeq(overlays, LAMBDA o : o.id # id)
  /\ UpdatePriceChart(baseHistory, overlays')
  /\ UNCHANGED <<currentInterval, baseHistory, overlayCounter, rsiToggle,
                 rsiPeriodEl, rsiHidden, rsiChart, inflight, nextReq, cmds, rsiIssued>>

\* the user edits the RSI period input
SetRsiPeriod(p) ==
  /\ UNCHANGED <<indVars, listVars, histVars>>
  /\ p # rsiPeriodEl
  /\ rsiPeriodEl' = p
  /\ UNCHANGED <<currentInterval, baseHistory, defaultTimeRange, xRange, overlays,
                 overlayCounter, chartDatasets, rsiToggle, rsiHidden, rsiChart,
                 inflight, nextReq, cmds, rsiIssued>>

\* rsiToggle change: loadRsi(true) when now checked, hideRsiChart() otherwise
ToggleRsi ==
  /\ UNCHANGED <<indVars, listVars, histVars>>
  /\ rsiToggle' = ~rsiToggle
  /\ IF rsiToggle'
       THEN /\ LoadRsiRequests(nextReq, TRUE) # {} => cmds < MaxCmds
            /\ IssueAll({}, LoadRsiRequests(nextReq, TRUE))
            /\ UNCHANGED <<rsiHidden, rsiChart>>
       ELSE /\ rsiHidden' = TRUE
            /\ rsiChart' = NoChart
            /\ UNCHANGED <<inflight, nextReq, cmds, rsiIssued>>
  /\ UNCHANGED <<currentInterval, baseHistory, defaultTimeRange, xRange, overlays,
                 overlayCounter, chartDatasets, rsiPeriodEl>>

\* rsiApply click: the toggle is checked, then loadRsi(false)
ApplyRsi ==
  /\ UNCHANGED <<indVars, listVars, histVars>>
  /\ LoadRsiRequests(nextReq, FALSE) # {} => cmds < MaxCmds
  /\ rsiToggle' = TRUE
  /\ IssueAll({}, LoadRsiRequests(nextReq, FALSE))
  /\ UNCHANGED <<currentInterval, baseHistory, defaultTimeRange, xRange, overlays,
                 overlayCounter, chartDatasets, rsiPeriodEl, rsiHidden, rsiChart>>

\* renderRsiChart(values, period): the wrapper is shown and the chart holds
\* the values of request r
RenderRsiChart(r) == [period |-> r.window, iv |-> r.iv, req |-> r.id]

\* loadRsi(): the RSI values arrived
RsiLoaded(r) ==
  /\ UNCHANGED <<indVars, listVars, histVars>>
  /\ r \in inflight /\ r.kind = "rsi"
  /\ rsiHidden' = FALSE
  /\ rsiChart' = RenderRsiChart(r)
  /\ IssueAll({r}, {})
  /\ UNCHANGED <<currentInterval, baseHistory, defaultTimeRange, xRange, overlays,
                 overlayCounter, chartDatasets, rsiToggle, rsiPeriodEl>>

\* loadRsi(): the fetch failed; an automatic load unchecks the toggle
RsiFailed(r) ==
  /\ UNCHANGED <<indVars, listVars, histVars>>
  /\ r \in inflight /\ r.kind = "rsi"
  /\ rsiToggle' = IF r.auto THEN FALSE ELSE rsiToggle
  /\ IssueAll({r}, {})
  /\ UNCHANGED <<currentInterval, baseHistory, defaultTimeRange, xRange, overlays,
                 overlayCounter, chartDatasets, rsiPeriodEl, rsiHidden, rsiChart>>

(***************************************************************************)
(* The viewport of the price chart.  Time is counted in days, so that      *)
(* MIN_SPAN_MS (24 * 60 * 60 * 1000 ms) is 1.  The zoom buttons take the   *)
(* manual path (manualZoom, manualResetZoom), the one the page uses when   *)
(* chart.zoom and chart.resetZoom are unavailable or throw.  After         *)
(* chart.update the x scale shows the option bounds xRange whenever they   *)
(* are set.                                                                *)
(***************************************************************************)
IN_FACTOR == Norm(7, 5)
OUT_FACTOR == Norm(7, 10)
MAX_ZOOM_DIVISOR == 200
MIN_SPAN_MS == Num(1)

\* the intervals the user switches to while zooming (the page starts on 1d),
\* and the distances of a pan
ZoomIntervals == {"1h", "1mo"}
PanSteps == {Norm(1, 2), Norm(-1, 2)}
\* the factors manualZoom is given: those of the buttons, and their inverses
ButtonFactors == {IN_FACTOR, OUT_FACTOR}
ZoomFactors == ButtonFactors \cup {JDiv(Num(1), f) : f \in ButtonFactors}

IsFinite(x) == x.t = "num"
Span(r) == JSub(r.max, r.min)

\* getCurrentRange(scale): null is NoRange
getCurrentRange(scale) ==
  LET resolvedMin == IF IsFinite(scale.min) THEN scale.min ELSE defaultTimeRange.min
      resolvedMax == IF IsFinite(scale.max) THEN scale.max ELSE defaultTimeRange.max
  IN  IF ~IsFinite(resolvedMin) \/ ~IsFinite(resolvedMax) \/ ~JGt(resolvedMax, resolvedMin)
        THEN NoRange
        ELSE [min |-> resolvedMin, max |-> resolvedMax]

\* a reset that restores the lower bound only
manualResetZoomKeepsMax == [min |-> defaultTimeRange.min, max |-> xRange.max]

\* manualResetZoom(): the option bounds become the default range, or are
\* deleted when there is none
manualResetZoom == defaultTimeRange

\* a target span that shrinks by a share of the span instead of dividing
TargetSpanScaled(currentSpan, factor) == JMul(currentSpan, JSub(Num(2), factor))

\* targetSpan = currentSpan / factor
TargetSpan(currentSpan, factor) == JDiv(currentSpan, factor)

\* a floor without the one-day minimum
MinSpanNoDay(defaultRange) == JDiv(defaultRange, Num(MAX_ZOOM_DIVISOR))

\* minSpan = Math.max(defaultRange / MAX_ZOOM_DIVISOR, MIN_SPAN_MS)
MinSpan(defaultRange) == JMax(JDiv(defaultRange, Num(MAX_ZOOM_DIVISOR)), MIN_SPAN_MS)

\* a next span that ignores the floor
NextSpanUnfloored(minSpan, targetSpan) == targetSpan

\* nextSpan = Math.max(minSpan, targetSpan)
NextSpan(minSpan, targetSpan) == JMax(minSpan, targetSpan)

\* a window cut at the edges of the default range without being shifted
FitInsideCut(def, w) == [min |-> JMax(def.min, w.min), max |-> JMin(def.max, w.max)]

\* a window left where the recentring put it
FitInsideNot(def, w) == w

\* the window [nextMin, nextMax] moved back inside the default range: shifted
\* up, shifted down, then cut at both ends
FitInside(def, w) ==
  LET up == IF JGt(def.min, w.min) THEN JSub(def.min, w.min) ELSE Num(0)
      a == [min |-> JAdd(w.min, up), max |-> JAdd(w.max, up)]
      down == IF JGt(a.max, def.max) THEN JSub(a.max, def.max) ELSE Num(0)
      b == [min |-> JSub(a.min, down), max |-> JSub(a.max, down)]
  IN  [min |-> JMax(def.min, b.min), max |-> JMin(def.max, b.max)]

\* a zoom without the guard on the default range: it scales a window of one
\* day when there is no default range
ManualZoomRangeUnguarded(factor) ==
  IF defaultTimeRange = NoRange
    THEN [min |-> Num(0), max |-> JDiv(Num(1), factor)]
    ELSE xRange

\* manualZoom(factor): the option bounds of the x scale afterwards
ManualZoomRange(factor) ==
  IF defaultTimeRange = NoRange THEN xRange
  ELSE
    LET currentRange == getCurrentRange(xRange)
        defaultRange == Span(defaultTimeRange)
        currentSpan == Span(currentRange)
        targetSpan == TargetSpan(currentSpan, factor)
        minSpan == MinSpan(defaultRange)
        nextSpan == NextSpan(minSpan, targetSpan)
        center == JAdd(currentRange.min, JDiv(currentSpan, Num(2)))
        next == FitInside(defaultTimeRange,
                          [min |-> JSub(center, JDiv(nextSpan, Num(2))),
                           max |-> JAdd(center, JDiv(nextSpan, Num(2)))])
    IN  IF currentRange = NoRange THEN xRange
        ELSE IF ~IsFinite(defaultRange) \/ ~JGt(defaultRange, Num(0)) THEN xRange
        ELSE IF ~IsFinite(currentSpan) \/ ~JGt(currentSpan, Num(0)) THEN xRange
        ELSE IF ~JGt(defaultRange, nextSpan) THEN manualResetZoom
        ELSE IF ~JGt(next.max, next.min) THEN manualResetZoom
        ELSE next

\* zoomChartByFactor(factor) on the manual path
manualZoom(factor) ==
  /\ UNCHANGED <<indVars, listVars>>
  /\ zooms < MaxZooms
  /\ zooms' = zooms + 1
  /\ xRange' = ManualZoomRange(factor)
  /\ lastZoom' = IF defaultTimeRange = NoRange \/ getCurrentRange(xRange) = NoRange
                   THEN lastZoom
                   ELSE [factor |-> factor, before |-> getCurrentRange(xRange),
                         after |-> xRange', def |-> defaultTimeRange,
                         prev |-> [factor |-> lastZoom.factor,
                                   before |-> lastZoom.before,
                                   after |-> lastZoom.after,
                                   def |-> lastZoom.def]]
  /\ UNCHANGED <<currentInterval, baseHistory, defaultTimeRange, overlays,
                 overlayCounter, chartDatasets, rsiToggle, rsiPeriodEl, rsiHidden,
                 rsiChart, inflight, nextReq, cmds, rsiIssued, lastAdd>>

\* the Zoom in, Zoom out and Reset buttons
ZoomIn == manualZoom(IN_FACTOR)

ZoomOut == manualZoom(OUT_FACTOR)

ResetZoom ==
  /\ UNCHANGED <<indVars, listVars, histVars>>
  /\ xRange' = manualResetZoom
  /\ UNCHANGED <<currentInterval, baseHistory, defaultTimeRange, overlays,
                 overlayCounter, chartDatasets, rsiToggle, rsiPeriodEl, rsiHidden,
                 rsiChart, inflight, nextReq, cmds, rsiIssued>>

\* a shift-drag pans the x scale by step, as far as the limits of the
\* original range allow, keeping the span (plugins.zoom.pan, limits)
PanViewport(step) ==
  /\ UNCHANGED <<indVars, listVars, lastZoom, lastAdd>>
  /\ zooms < MaxZooms
  /\ defaultTimeRange # NoRange
  /\ xRange # NoRange
  /\ zooms' = zooms + 1
  /\ LET d == IF JGt(step, Num(0))
                THEN JMin(step, JSub(defaultTimeRange.max, xRange.max))
                ELSE JMax(step, JSub(defaultTimeRange.min, xRange.min))
     IN  xRange' = [min |-> JAdd(xRange.min, d), max |-> JAdd(xRange.max, d)]
  /\ UNCHANGED <<currentInterval, baseHistory, defaultTimeRange, overlays,
                 overlayCounter, chartDatasets, rsiToggle, rsiPeriodEl, rsiHidden,
                 rsiChart, inflight, nextReq, cmds, rsiIssued>>

\* the indicator functions of stock_detail.js are not part of this page
IndIdle == values = <<>> /\ period = 0 /\ out = <<>> /\ fn = "none"

(***************************************************************************)
(* Spec: the whole detail view.                                            *)
(***************************************************************************)
Init ==
  /\ InitView
  /\ IndIdle
  /\ ListIdle

Next ==
  \/ \E iv \in Intervals : ChangeInterval(iv)
  \/ \E r \in inflight : HistoryLoaded(r)
  \/ \E r \in inflight : HistoryFailed(r)
  \/ \E r \in inflight : OverlayRecomputed(r)
  \/ \E r \in inflight : OverlayRecomputeFailed(r)
  \/ \E type \in OverlayTypes, window \in WindowInputs : SubmitOverlay(type, window)
  \/ \E r \in inflight : OverlayAdded(r)
  \/ \E r \in inflight : OverlayAddFailed(r)
  \/ \E k \in 1..Len(overlays) : RemoveOverlay(overlays[k].id)
  \/ \E p \in RsiPeriodInputs : SetRsiPeriod(p)
  \/ ToggleRsi
  \/ ApplyRsi
  \/ \E r \in inflight : RsiLoaded(r)
  \/ \E r \in inflight : RsiFailed(r)

Spec == Init /\ [][Next]_vars

(***************************************************************************)
(* SpecOverlay: the history and overlay pipeline; the user leaves the RSI  *)
(* panel alone (the toggle stays unchecked).                               *)
(***************************************************************************)
InitOverlay ==
  /\ InitView
  /\ rsiPeriodEl = Num(14)
  /\ IndIdle
  /\ ListIdle

NextOverlay ==
  \/ \E iv \in Intervals : ChangeInterval(iv)
  \/ \E r \in inflight : HistoryLoaded(r)
  \/ \E r \in inflight : HistoryFailed(r)
  \/ \E r \in inflight : OverlayRecomputed(r)
  \/ \E r \in inflight : OverlayRecomputeFailed(r)
  \/ \E type \in OverlayTypes, window \in WindowInputs : SubmitOverlay(type, window)
  \/ \E r \in inflight : OverlayAdded(r)
  \/ \E r \in inflight : OverlayAddFailed(r)
  \/ \E k \in 1..Len(overlays) : RemoveOverlay(overlays[k].id)

SpecOverlay == InitOverlay /\ [][NextOverlay]_vars

(***************************************************************************)
(* SpecRsi: the history pipeline and the RSI panel; the user adds no       *)
(* overlay.                                                                *)
(***************************************************************************)
InitRsi ==
  /\ InitView
  /\ IndIdle
  /\ ListIdle

NextRsi ==
  \/ \E iv \in Intervals : ChangeInterval(iv)
  \/ \E r \in inflight : HistoryLoaded(r)
  \/ \E r \in inflight : HistoryFailed(r)
  \/ \E p \in RsiPeriodInputs : SetRsiPeriod(p)
  \/ ToggleRsi
  \/ ApplyRsi
  \/ \E r \in inflight : RsiLoaded(r)
  \/ \E r \in inflight : RsiFailed(r)

SpecRsi == InitRsi /\ [][NextRsi]_vars

(***************************************************************************)
(* SpecZoom: the history pipeline and the viewport; the user changes the   *)
(* interval, presses the zoom buttons and pans, and leaves the overlays    *)
(* and the RSI panel alone.                                                *)
(***************************************************************************)
InitZoom ==
  /\ InitView
  /\ rsiPeriodEl = Num(14)
  /\ IndIdle
  /\ ListIdle

NextZoom ==
  \/ \E iv \in ZoomIntervals : ChangeInterval(iv)
  \/ \E r \in inflight : HistoryLoaded(r)
  \/ \E r \in inflight : HistoryFailed(r)
  \/ ZoomIn
  \/ ZoomOut
  \/ ResetZoom
  \/ \E step \in PanSteps : PanViewport(step)

SpecZoom == InitZoom /\ [][NextZoom]_vars

(***************************************************************************)
(* SpecZoomFactor: the viewport on the series of the initial load, with    *)
(* manualZoom applied to every factor of ZoomFactors.                      *)
(***************************************************************************)
NextZoomFactor ==
  \/ \E r \in inflight : HistoryLoaded(r)
  \/ \E r \in inflight : HistoryFailed(r)
  \/ \E f \in ZoomFactors : manualZoom(f)
  \/ ResetZoom
  \/ \E step \in PanSteps : PanViewport(step)

SpecZoomFactor == InitZoom /\ [][NextZoomFactor]_vars

(***************************************************************************)
(* SpecPeriod: the overlay form with periods at the edges of the range     *)
(* the indicators are meant for; the interval stays the initial one.       *)
(***************************************************************************)
BoundaryWindows == {Num(1), Num(20), Num(401)}

NextPeriod ==
  \/ \E r \in inflight : HistoryLoaded(r)
  \/ \E r \in inflight : HistoryFailed(r)
  \/ \E r \in inflight : OverlayRecomputed(r)
  \/ \E r \in inflight : OverlayRecomputeFailed(r)
  \/ \E type \in OverlayTypes, window \in BoundaryWindows : SubmitOverlay(type, window)
  \/ \E r \in inflight : OverlayAdded(r)
  \/ \E r \in inflight : OverlayAddFailed(r)
  \/ \E k \in 1..Len(overlays) : RemoveOverlay(overlays[k].id)

SpecPeriod == InitOverlay /\ [][NextPeriod]_vars

(***************************************************************************)
(* SpecRefresh: the history pipeline with overlays and the RSI panel       *)
(* together; the user adds SMA(20) overlays and switches the RSI period    *)
(* input between 14 and 1.  SpecRefreshFair adds that every fetch is       *)
(* answered.                                                               *)
(***************************************************************************)
NextRefresh ==
  \/ \E iv \in Intervals : ChangeInterval(iv)
  \/ \E r \in inflight : HistoryLoaded(r)
  \/ \E r \in inflight : HistoryFailed(r)
  \/ \E r \in inflight : OverlayRecomputed(r)
  \/ \E r \in inflight : OverlayRecomputeFailed(r)
  \/ SubmitOverlay("sma", Num(20))
  \/ \E r \in inflight : OverlayAdded(r)
  \/ \E r \in inflight : OverlayAddFailed(r)
  \/ \E p \in {Num(1), Num(14)} : SetRsiPeriod(p)
  \/ ToggleRsi
  \/ \E r \in inflight : RsiLoaded(r)
  \/ \E r \in inflight : RsiFailed(r)

\* a fetch is answered, with a result or a failure
Respond ==
  \E r \in inflight :
     \/ HistoryLoaded(r) \/ HistoryFailed(r)
     \/ OverlayRecomputed(r) \/ OverlayRecomputeFailed(r)
     \/ OverlayAdded(r) \/ OverlayAddFailed(r)
     \/ RsiLoaded(r) \/ RsiFailed(r)

SpecRefresh == InitOverlay /\ [][NextRefresh]_vars

SpecRefreshFair == SpecRefresh /\ WF_vars(Respond)

(***************************************************************************)
(* SpecOverlayZoom: overlays are added, removed and recomputed while the   *)
(* user zooms the price chart.                                             *)
(***************************************************************************)
NextOverlayZoom ==
  \/ \E r \in inflight : HistoryLoaded(r)
  \/ \E r \in inflight : OverlayRecomputed(r)
  \/ \E r \in inflight : OverlayRecomputeFailed(r)
  \/ SubmitOverlay("sma", Num(20))
  \/ \E r \in inflight : OverlayAdded(r)
  \/ \E k \in 1..Len(overlays) : RemoveOverlay(overlays[k].id)
  \/ ZoomIn

SpecOverlayZoom == InitOverlay /\ [][NextOverlayZoom]_vars

(***************************************************************************)
(* The list page (static/js/app.js).                                       *)
(*                                                                         *)
(* Every handler run that fetches has a number (run); its fetches carry    *)
(* it, with the handler they belong to (chain).  The server's database is  *)
(* read and written at the moment a response is handled.  The page shows   *)
(* one list; the stocks added go to that list.                             *)
(***************************************************************************)
MaxListRuns == 2     \* handler runs of the list page that fetch (after the initial load)

\* what is typed into the symbol and initial price fields; the price is the
\* value of Number(text)
SymbolInputs == {"", " ", "aapl", "MSFT"}
InitialPriceInputs == {Num(10), NaN}

\* (value || '').trim().toUpperCase()
TrimUpper(text) ==
  IF text = " " THEN ""
  ELSE IF text = "aapl" THEN "AAPL"
  ELSE text

ListReq(id, kind, chain, run, symbol) ==
  [id |-> id, kind |-> kind, chain |-> chain, run |-> run, symbol |-> symbol]

loader == [state |-> "loader", rows |-> <<>>]
errorBox == [state |-> "error", rows |-> <<>>]

\* renderStockTable(stocks, listType): every row has the placeholder in its
\* current price cell
renderStockTable(stocks) ==
  [state |-> "table",
   rows |-> [k \in 1..Len(stocks) |-> [symbol |-> stocks[k], current |-> "placeholder"]]]

\* applyPrices(priceList): the rows whose symbol is in the list get a price
applyPrices(tbl, priceList) ==
  [tbl EXCEPT !.rows =
     [k \in 1..Len(tbl.rows) |->
        IF \E j \in 1..Len(priceList) : priceList[j] = tbl.rows[k].symbol
          THEN [tbl.rows[k] EXCEPT !.current = "price"]
          ELSE tbl.rows[k]]]

\* the fetches of a step: finished is answered, new is issued
ListIssue(finished, new) ==
  /\ listFetches' = (listFetches \ finished) \cup new
  /\ listSeq' = listSeq + Cardinality(new)

\* loadStocks() up to its fetch
loadStocks(r) ==
  /\ table' = loader
  /\ ListIssue({r}, {ListReq(listSeq, "stocks", r.chain, r.run, r.symbol)})

\* updatePrices() up to its fetch
updatePrices(finished, chain, run) ==
  /\ refreshDisabled' = TRUE
  /\ priceRuns' = priceRuns \cup {run}
  /\ ListIssue(finished, {ListReq(listSeq, "prices", chain, run, "")})

\* the page after the synchronous part of init(): loadStocks() is waiting
InitList ==
  /\ dbStocks \in {<<>>, <<"IBM">>}
  /\ table = loader
  /\ formMessage = NoListMessage
  /\ addDisabled = FALSE
  /\ refreshDisabled = FALSE
  /\ lastUpdated = ""
  /\ timerOn = FALSE
  /\ listFetches = {ListReq(1, "stocks", "init", 0, "")}
  /\ listSeq = 2
  /\ listRuns = 0
  /\ priceRuns = {}

\* addStockForm submit
SubmitAddStock(symbolText, initialPrice) ==
  /\ UNCHANGED <<indVars, viewVars, searchVars>>
  /\ ~addDisabled
  /\ IF TrimUpper(symbolText) = ""
       THEN /\ formMessage' = [text |-> "Symbol is required", run |-> 0]
            /\ UNCHANGED <<addDisabled, listFetches, listSeq, listRuns>>
       ELSE IF initialPrice.t = "nan"
         THEN /\ formMessage' = [text |-> "Initial price must be a number", run |-> 0]
              /\ UNCHANGED <<addDisabled, listFetches, listSeq, listRuns>>
         ELSE /\ listRuns < MaxListRuns
              /\ formMessage' = NoListMessage
              /\ addDisabled' = TRUE
              /\ listRuns' = listRuns + 1
              /\ ListIssue({}, {ListReq(listSeq, "post", "add", listRuns + 1,
                                        TrimUpper(symbolText))})
  /\ UNCHANGED <<dbStocks, table, refreshDisabled, lastUpdated, timerOn, priceRuns>>

\* addStockForm submit: POST /api/stocks answered ok, loadStocks() starts
AddPosted(r) ==
  /\ UNCHANGED <<indVars, viewVars, searchVars>>
  /\ r \in listFetches /\ r.kind = "post"
  /\ dbStocks' = Append(dbStocks, r.symbol)
  /\ loadStocks(r)
  /\ UNCHANGED <<formMessage, addDisabled, refreshDisabled, lastUpdated, timerOn,
                 listRuns, priceRuns>>

\* addStockForm submit: the POST failed, the catch and finally blocks run
AddPostFailed(r) ==
  /\ UNCHANGED <<indVars, viewVars, searchVars>>
  /\ r \in listFetches /\ r.kind = "post"
  /\ formMessage' = [text |-> "Failed to add stock", run |-> r.run]
  /\ addDisabled' = FALSE
  /\ ListIssue({r}, {})
  /\ UNCHANGED <<dbStocks, table, refreshDisabled, lastUpdated, timerOn, listRuns,
                 priceRuns>>

\* loadStocks(): the list arrived (ok) or not; the caller goes on to
\* loadWeeks()
StocksAnswered(r, ok) ==
  /\ UNCHANGED <<indVars, viewVars, searchVars>>
  /\ r \in listFetches /\ r.kind = "stocks"
  /\ table' = IF ok THEN renderStockTable(dbStocks) ELSE errorBox
  /\ ListIssue({r}, {ListReq(listSeq, "weeks", r.chain, r.run, r.symbol)})
  /\ UNCHANGED <<dbStocks, formMessage, addDisabled, refreshDisabled, lastUpdated,
                 timerOn, listRuns, priceRuns>>

\* loadWeeks() ended, with the weeks or with a logged error; init() goes on
\* to updatePrices(), the add handler resets the form and reports success
WeeksAnswered(r) ==
  /\ UNCHANGED <<indVars, viewVars, searchVars>>
  /\ r \in listFetches /\ r.kind = "weeks"
  /\ IF r.chain = "init"
       THEN /\ updatePrices({r}, "init", r.run)
            /\ UNCHANGED <<formMessage, addDisabled>>
       ELSE /\ formMessage' = [text |-> "Stock added.", run |-> r.run]
            /\ addDisabled' = FALSE
            /\ ListIssue({r}, {})
            /\ UNCHANGED <<refreshDisabled, priceRuns>>
  /\ UNCHANGED <<dbStocks, table, lastUpdated, timerOn, listRuns>>

\* updatePrices(): the prices arrived (ok) or not; init() then arms the
\* timer
PricesAnswered(r, ok) ==
  /\ UNCHANGED <<indVars, viewVars, searchVars>>
  /\ r \in listFetches /\ r.kind = "prices"
  /\ lastUpdated' = IF ok THEN "time" ELSE "failed"
  /\ table' = IF ok THEN applyPrices(table, dbStocks) ELSE table
  /\ refreshDisabled' = FALSE
  /\ timerOn' = (timerOn \/ r.chain = "init")
  /\ ListIssue({r}, {})
  /\ UNCHANGED <<dbStocks, formMessage, addDisabled, listRuns, priceRuns>>

\* the 60 s timer fires
TimerTick ==
  /\ UNCHANGED <<indVars, viewVars, searchVars>>
  /\ timerOn
  /\ listRuns < MaxListRuns
  /\ listRuns' = listRuns + 1
  /\ updatePrices({}, "timer", listRuns + 1)
  /\ UNCHANGED <<dbStocks, table, formMessage, addDisabled, lastUpdated, timerOn>>

\* refreshBtn click
RefreshClick ==
  /\ UNCHANGED <<indVars, viewVars, searchVars>>
  /\ ~refreshDisabled
  /\ listRuns < MaxListRuns
  /\ listRuns' = listRuns + 1
  /\ updatePrices({}, "refresh", listRuns + 1)
  /\ UNCHANGED <<dbStocks, table, formMessage, addDisabled, lastUpdated, timerOn>>

(***************************************************************************)
(* SpecList: the list page; the detail view is idle.                       *)
(***************************************************************************)
InitListPage ==
  /\ InitList
  /\ SearchIdle
  /\ IndIdle
  /\ ViewIdle

NextList ==
  \/ \E s \in SymbolInputs, p \in InitialPriceInputs : SubmitAddStock(s, p)
  \/ \E r \in listFetches : AddPosted(r)
  \/ \E r \in listFetches : AddPostFailed(r)
  \/ \E r \in listFetches, ok \in BOOLEAN : StocksAnswered(r, ok)
  \/ \E r \in listFetches : WeeksAnswered(r)
  \/ \E r \in listFetches, ok \in BOOLEAN : PricesAnswered(r, ok)
  \/ TimerTick
  \/ RefreshClick

SpecList == InitListPage /\ [][NextList]_vars

(***************************************************************************)
(* SpecChart: the chart page of static/js/stock_detail.js prepares the     *)
(* period of each indicator from its period input.  values holds the       *)
(* closes of the series and period the integer typed into the input.       *)
(***************************************************************************)
ChartPeriodInputs == {0, 1, 2, 3, 101, 401}

\* Math.max(2, Math.min(bound, Number(input.value)))
PreparePeriod(input, bound) ==
  LET capped == IF input < bound THEN input ELSE bound
  IN  IF capped > 2 THEN capped ELSE 2

InitChart ==
  /\ values \in SeqsUpTo(InputValues, MaxLen)
  /\ period \in ChartPeriodInputs
  /\ out = <<>>
  /\ fn = "none"
  /\ ViewIdle
  /\ ListIdle

\* buildDatasets(): the SMA dataset
BuildSMA ==
  /\ out' = computeSMA(values, PreparePeriod(period, 400))
  /\ fn' = "sma"
  /\ UNCHANGED <<values, period>>
  /\ UNCHANGED <<viewVars, listVars>>

\* buildDatasets(): the EMA dataset
BuildEMA ==
  /\ out' = computeEMA(values, PreparePeriod(period, 400))
  /\ fn' = "ema"
  /\ UNCHANGED <<values, period>>
  /\ UNCHANGED <<viewVars, listVars>>

\* ensureRsiChart(): the RSI dataset
BuildRSI ==
  /\ out' = computeRSI(values, PreparePeriod(period, 100))
  /\ fn' = "rsi"
  /\ UNCHANGED <<values, period>>
  /\ UNCHANGED <<viewVars, listVars>>

NextChart == BuildSMA \/ BuildEMA \/ BuildRSI

SpecChart == InitChart /\ [][NextChart]_vars

(***************************************************************************)
(* The search box of the list page (unnamed/part_001).                     *)
(*                                                                         *)
(* A search request is in searchFetches from its fetch() until its handler *)
(* has run to the end of its finally block.  abort() marks the request;    *)
(* the handler of an aborted request then ends with the AbortError.        *)
(***************************************************************************)
MaxSearches == 3     \* search requests issued

\* what the search input can hold
SearchInputs == {"", " ", "aapl", "MSFT"}

SearchReq(id, query) == [id |-> id, query |-> query, aborted |-> FALSE]

\* searchController.abort()
Abort(fetches, controller) ==
  {IF r.id = controller THEN [r EXCEPT !.aborted = TRUE] ELSE r : r \in fetches}

\* clearSearchResults()
clearSearchResults ==
  /\ searchTimer' = NoTimer
  /\ searchFetches' = Abort(searchFetches, searchController)
  /\ searchController' = 0
  /\ searchList' = hiddenList

\* renderSearchLoading()
renderSearchLoading == [state |-> "loading", query |-> ""]

\* renderSearchResults(items): the matches of the query, or "No matches found."
renderSearchResults(query) == [state |-> "results", query |-> query]

\* renderSearchError(): "Could not load suggestions."
renderSearchError(query) == [state |-> "error", query |-> query]

\* the input event: handleSearchInput
handleSearchInput(text) ==
  /\ UNCHANGED <<indVars, viewVars, stockVars>>
  /\ text # searchInput
  /\ searchInput' = text
  /\ IF TrimUpper(text) = ""
       THEN clearSearchResults
       ELSE /\ searchList' = renderSearchLoading
            /\ searchTimer' = [kind |-> "input", query |-> TrimUpper(text)]
            /\ UNCHANGED <<searchController, searchFetches>>
  /\ UNCHANGED searchSeq

\* handleSearchKeydown, ArrowDown on a hidden list
SearchArrowDown ==
  /\ UNCHANGED <<indVars, viewVars, stockVars>>
  /\ searchList.state = "hidden"
  /\ TrimUpper(searchInput) # ""
  /\ searchList' = renderSearchLoading
  /\ searchTimer' = [kind |-> "arrow", query |-> ""]
  /\ UNCHANGED <<searchInput, searchController, searchFetches, searchSeq>>

\* handleSearchKeydown, Escape (and a click outside the search box)
SearchEscape ==
  /\ UNCHANGED <<indVars, viewVars, stockVars>>
  /\ clearSearchResults
  /\ UNCHANGED <<searchInput, searchSeq>>

\* the timeout fires: fetchSearchResults(query) up to its fetch
fetchSearchResults ==
  /\ UNCHANGED <<indVars, viewVars, stockVars>>
  /\ searchTimer # NoTimer
  /\ searchSeq <= MaxSearches
  /\ LET query == IF searchTimer.kind = "arrow" THEN TrimUpper(searchInput)
                                                ELSE searchTimer.query
     IN IF query = ""
          THEN /\ clearSearchResults
               /\ UNCHANGED searchSeq
          ELSE /\ searchTimer' = NoTimer
               /\ searchFetches' = Abort(searchFetches, searchController)
                                     \cup {SearchReq(searchSeq, query)}
               /\ searchController' = searchSeq
               /\ searchSeq' = searchSeq + 1
               /\ UNCHANGED searchList
  /\ UNCHANGED searchInput

\* fetchSearchResults: the request was answered (ok) or failed without
\* having been aborted; the finally block runs
SearchAnswered(r, ok) ==
  /\ UNCHANGED <<indVars, viewVars, stockVars>>
  /\ r \in searchFetches /\ ~r.aborted
  /\ searchList' = IF ~ok THEN renderSearchError(r.query)
                   ELSE IF TrimUpper(searchInput) # r.query THEN searchList
                   ELSE renderSearchResults(r.query)
  /\ searchController' = 0
  /\ searchFetches' = searchFetches \ {r}
  /\ UNCHANGED <<searchInput, searchTimer, searchSeq>>

\* fetchSearchResults: the AbortError of an aborted request is caught; the
\* finally block runs
SearchAborted(r) ==
  /\ UNCHANGED <<indVars, viewVars, stockVars>>
  /\ r \in searchFetches /\ r.aborted
  /\ searchController' = 0
  /\ searchFetches' = searchFetches \ {r}
  /\ UNCHANGED <<searchInput, searchTimer, searchList, searchSeq>>

(***************************************************************************)
(* SpecSearch: the search box; the stock table and the detail view are     *)
(* idle.                                                                   *)
(***************************************************************************)
InitSearch ==
  /\ IndIdle
  /\ ViewIdle
  /\ ListIdle

NextSearch ==
  \/ \E text \in SearchInputs : handleSearchInput(text)
  \/ SearchArrowDown
  \/ SearchEscape
  \/ fetchSearchResults
  \/ \E r \in searchFetches, ok \in BOOLEAN : SearchAnswered(r, ok)
  \/ \E r \in searchFetches : SearchAborted(r)

SpecSearch == InitSearch /\ [][NextSearch]_vars

(***************************************************************************)
(* SpecPrices: the price updates of the list page: the initial load, the   *)
(* 60 s timer, the Refresh Prices button and a change of the view or week  *)
(* selector.  The add form and the search box are idle.                    *)
(***************************************************************************)
\* viewSelector / weekSelector change: loadStocks() starts
ViewChange ==
  /\ UNCHANGED <<indVars, viewVars, searchVars>>
  /\ listRuns < MaxListRuns
  /\ listRuns' = listRuns + 1
  /\ table' = loader
  /\ ListIssue({}, {ListReq(listSeq, "stocks", "view", listRuns + 1, "")})
  /\ UNCHANGED <<dbStocks, formMessage, addDisabled, refreshDisabled, lastUpdated,
                 timerOn, priceRuns>>

\* viewSelector / weekSelector change: loadStocks() ended, with the list or
\* with the error box; updatePrices() starts
ViewStocksAnswered(r, ok) ==
  /\ UNCHANGED <<indVars, viewVars, searchVars>>
  /\ r \in listFetches /\ r.kind = "stocks" /\ r.chain = "view"
  /\ table' = IF ok THEN renderStockTable(dbStocks) ELSE errorBox
  /\ updatePrices({r}, "view", r.run)
  /\ UNCHANGED <<dbStocks, formMessage, addDisabled, lastUpdated, timerOn, listRuns>>

NextPrices ==
  \/ \E r \in listFetches, ok \in BOOLEAN : r.chain = "init" /\ StocksAnswered(r, ok)
  \/ \E r \in listFetches : WeeksAnswered(r)
  \/ \E r \in listFetches, ok \in BOOLEAN : PricesAnswered(r, ok)
  \/ TimerTick
  \/ RefreshClick
  \/ ViewChange
  \/ \E r \in listFetches, ok \in BOOLEAN : ViewStocksAnswered(r, ok)

SpecPrices == InitListPage /\ [][NextPrices]_vars

(***************************************************************************)
(* Properties of the indicator functions.                                  *)
(***************************************************************************)
AllNumeric(vals) == \A j \in 1..Len(vals) : vals[j].t = "num"

\* the sum of vals[lo..hi] (0-based, inclusive), computed directly
RECURSIVE WindowSum(_, _, _)
WindowSum(vals, lo, hi) ==
  IF lo > hi THEN Num(0) ELSE JAdd(At(vals, lo), WindowSum(vals, lo + 1, hi))

Mean(vals, lo, hi) == JDiv(WindowSum(vals, lo, hi), Num(hi - lo + 1))

InRange0To100(x) ==
  x.t = "num" /\ x.n >= 0 /\ x.n <= 100 * x.d

\* C7: for a numeric series of length L and 2 <= p <= L, computeSMA returns
\* L entries, null at indices 0..p-2 and the mean of values[i-p+1..i] at
\* every index i >= p-1.
SMAReferenceEquality ==
  (fn = "sma" /\ AllNumeric(values) /\ period >= 2 /\ period <= Len(values)) =>
     /\ Len(out) = Len(values)
     /\ \A i \in 0..(Len(values) - 1) :
          At(out, i) = IF i < period - 1 THEN Null
                       ELSE Mean(values, i - period + 1, i)

\* a numeric series longer than the period was averaged: the window has
\* moved past index 0 and the last mean is not an integer
SMAWitness ==
  /\ fn = "sma" /\ AllNumeric(values)
  /\ period >= 2 /\ Len(values) > period
  /\ At(out, 0) = Null
  /\ At(out, Len(values) - 1).t = "num"
  /\ At(out, Len(values) - 1).d > 1
  /\ At(values, 0) # At(values, Len(values) - 1)

\* C8 (as claimed): for a numeric series and 2 <= p <= L the EMA output is
\* absent at every index < p-1 and equals mean(values[0..p-1]) at index p-1.
EMASeedIsSimpleAverage ==
  (fn = "ema" /\ AllNumeric(values) /\ period >= 2 /\ period <= Len(values)) =>
     /\ \A i \in 0..(period - 2) : IsAbsent(At(out, i))
     /\ At(out, period - 1) = Mean(values, 0, period - 1)

\* values[i] * k + ema[i-1] * (1 - k), with null read as 0 by the arithmetic
EMARecurrence(vals, res, p, i) ==
  LET k == EMAFactor(p)
  IN  JAdd(JMul(At(vals, i), k), JMul(Nullish0(At(res, i - 1)), JSub(Num(1), k)))

\* C9 (as claimed): at every index i >= period with a present input value,
\* ema[i] = values[i]*k + ema[i-1]*(1-k), k = 2/(period+1).
EMARecursionEverywhere ==
  (fn = "ema" /\ period >= 2) =>
     \A i \in period..(Len(values) - 1) :
        ~IsAbsent(At(values, i)) => At(out, i) = EMARecurrence(values, out, period, i)

\* C9 (amended): the recursion holds at every index i >= period with a
\* present input value that has a present input value somewhere before it.
EMARecursionAfterSeed ==
  (fn = "ema" /\ period >= 2) =>
     \A i \in period..(Len(values) - 1) :
        (~IsAbsent(At(values, i)) /\ \E j \in 0..(i - 1) : ~IsAbsent(At(values, j)))
           => /\ ~IsAbsent(At(out, i - 1))
              /\ At(out, i) = EMARecurrence(values, out, period, i)

\* an EMA was smoothed across a gap at an index >= period and moved
EMARecursionWitness ==
  /\ fn = "ema" /\ period >= 2 /\ Len(values) > period
  /\ ~IsAbsent(At(values, 0))
  /\ IsAbsent(At(values, period - 1))
  /\ ~IsAbsent(At(values, period))
  /\ At(out, period) # At(out, period - 1)
  /\ At(out, period) # At(values, period)

\* the price changes seen up to index i: change j for 1 <= j <= i, j < length
ChangesUpTo(vals, i) == {Change(vals, j) : j \in 1..(IF i < Len(vals) THEN i ELSE Len(vals) - 1)}

\* C10: every non-absent RSI output lies in [0,100]; it is exactly 100 when
\* all changes seen so far are non-negative and exactly 0 when all are
\* non-positive and at least one is non-zero.
RSIRangeAndExtremes ==
  (fn = "rsi" /\ period >= 2) =>
     \A i \in 0..(Len(out) - 1) :
        LET x == At(out, i)
            ch == ChangesUpTo(values, i)
        IN  /\ ~IsAbsent(x) => InRange0To100(x)
            /\ (i >= period /\ \A c \in ch : c.t = "num" /\ c.n >= 0) => x = Num(100)
            /\ (i >= period /\ (\A c \in ch : c.t = "num" /\ c.n <= 0)
                            /\ (\E c \in ch : c.n # 0)) => x = Num(0)

\* an RSI run with Wilder-smoothed outputs: one strictly inside (0,100), and
\* a flat-or-rising prefix that gave exactly 100 at the first output index
RSIWitness ==
  /\ fn = "rsi" /\ period >= 2 /\ Len(values) > period + 1
  /\ At(out, period) = Num(100)
  /\ \E i \in (period + 1)..(Len(values) - 1) :
        /\ At(out, i).t = "num"
        /\ At(out, i).n > 0 /\ At(out, i).n < 100 * At(out, i).d

(***************************************************************************)
(* Properties of the detail view.                                          *)
(***************************************************************************)
HistoryInFlight == \E r \in inflight : r.kind = "history"

\* C1 (as claimed): once every history fetch has been answered, the base
\* series displayed is the one of the interval requested last.
HistoryShowsLatestInterval ==
  (~HistoryInFlight /\ baseHistory # NoHistory) => baseHistory.iv = currentInterval

\* C2 (as claimed): whenever an RSI result is put on the RSI chart, it is
\* the result of the most recently issued RSI request (its period and its
\* interval).
RsiShowsLatestRequest ==
  [][(rsiChart' # rsiChart /\ rsiChart' # NoChart) =>
        (rsiChart'.period = rsiIssued.window /\ rsiChart'.iv = rsiIssued.iv)]_vars

\* the overlay with this id in an overlay map (the map holds it)
OverlayOf(ovs, id) == ovs[CHOOSE k \in 1..Len(ovs) : ovs[k].id = id]

\* C3 (as claimed): whenever the dataset of an overlay is replaced, the new
\* dataset comes from the most recently issued recompute of that overlay.
OverlayAppliesLatestRecompute ==
  [][\A k \in 1..Len(overlays') :
        LET o == overlays'[k]
        IN  (HasOverlay(overlays, o.id) /\ OverlayOf(overlays, o.id).dataset # o.dataset)
               => o.dataset.req = o.issued]_vars

\* C4: when the recompute r of an overlay is answered, a failure leaves the
\* overlay's dataset as it was, a success replaces it by r's dataset, no
\* other overlay changes, and the chart is re-rendered (price series first,
\* then every overlay's current dataset) exactly when the last recompute of
\* the batch has been answered.
PartialFailureIsolated ==
  [][\A r \in inflight :
        (r.kind = "overlay" /\ r \notin inflight') =>
           /\ Len(overlays') = Len(overlays)
           /\ \A k \in 1..Len(overlays) :
                /\ overlays[k].id # r.ov => overlays'[k] = overlays[k]
                /\ (overlays[k].id = r.ov /\ overlays'[k].settled = "failed")
                      => overlays'[k].dataset = overlays[k].dataset
                /\ (overlays[k].id = r.ov /\ overlays'[k].settled = "ok")
                      => overlays'[k].dataset.req = r.id
           /\ IF \E q \in inflight' : q.kind = "overlay" /\ q.batch = r.batch
                THEN chartDatasets' = chartDatasets
                ELSE chartDatasets' = RenderDatasets(baseHistory, overlays')]_vars

\* a batch over two overlays has settled with one failure and one success:
\* the chart shows the price series, the failed overlay's dataset from its
\* add and the other overlay's recomputed dataset
PartialFailureWitness ==
  /\ Len(overlays) = 2
  /\ ~\E q \in inflight : q.kind = "overlay"
  /\ \E k \in 1..2 :
        /\ overlays[k].settled = "failed"
        /\ overlays[k].dataset.req < overlays[k].issued
        /\ overlays[3 - k].settled = "ok"
        /\ overlays[3 - k].dataset.req = overlays[3 - k].issued
  /\ chartDatasets = <<PriceDataset(baseHistory), overlays[1].dataset, overlays[2].dataset>>
  /\ baseHistory # NoHistory

\* C5 (as claimed): an overlay whose last recompute failed has lastError set.
FailedOverlayHasLastError ==
  \A k \in 1..Len(overlays) :
     overlays[k].settled = "failed" => overlays[k].lastError # "absent"

\* C6 (as claimed): once a base series is displayed, no later history fetch
\* makes the base series empty.
FailedHistoryKeepsSeries ==
  [][baseHistory # NoHistory => baseHistory' # NoHistory]_vars

\* C11 (as claimed): for every input series, the empty one and those no
\* longer than the period included, and every accepted period, the output of
\* computeSMA, computeEMA and computeRSI has exactly the input's length.
IndicatorLengthAligned ==
  (fn # "none" /\ period >= 2) => Len(out) = Len(values)

(***************************************************************************)
(* Properties of the viewport.                                             *)
(***************************************************************************)
\* the range [min, max] of the timestamps of a series, NoRange for a series
\* with fewer than two distinct timestamps
TimestampRange(points) ==
  LET ts == {points[i] : i \in 1..Len(points)}
  IN  IF Cardinality(ts) < 2 THEN NoRange
      ELSE [min |-> CHOOSE x \in ts : \A y \in ts : x = y \/ JGt(y, x),
            max |-> CHOOSE x \in ts : \A y \in ts : x = y \/ JGt(x, y)]

\* the floor of the claims: max(defaultSpan / 200, one day)
MinSpanFloor(def) == JMax(JDiv(Span(def), Num(200)), Num(1))

\* r lies inside def and is not empty
Inside(def, r) ==
  /\ ~JGt(def.min, r.min) /\ JGt(r.max, r.min) /\ ~JGt(r.max, def.max)

\* the current range is the result of a manualZoom on the displayed series
JustZoomed == lastZoom.def = defaultTimeRange /\ lastZoom.after = xRange
                /\ defaultTimeRange # NoRange

\* C13: after any sequence of zoom-in and zoom-out operations, the Reset
\* button sets the viewport range to exactly the range [min, max] of the
\* base series' timestamps, and leaves it unbounded when that range is
\* undefined.
ResetRestoresDefaultRange ==
  [][ResetZoom => xRange' = TimestampRange(baseHistory.points)]_vars

\* the only history load was the initial one, the last zoom on its series
\* left a zoomed window, and the viewport is the default range again: Reset
\* has acted after at least two gestures
ResetWitness ==
  /\ cmds = 0 /\ zooms >= 2
  /\ lastZoom.def = defaultTimeRange /\ defaultTimeRange # NoRange
  /\ lastZoom.after # defaultTimeRange
  /\ xRange = TimestampRange(baseHistory.points)

\* C14: whenever the x scale is bounded, a default range exists and
\* defaultRange.min <= range.min < range.max <= defaultRange.max.
ViewportContained ==
  xRange # NoRange => (defaultTimeRange # NoRange /\ Inside(defaultTimeRange, xRange))

\* a zoom-out of a panned window was shifted back inside: the zoomed window
\* touches the upper edge of the default range
ContainedWitness ==
  /\ JustZoomed /\ lastZoom.factor = OUT_FACTOR
  /\ xRange # defaultTimeRange
  /\ xRange.max = defaultTimeRange.max
  /\ JGt(lastZoom.after.min, defaultTimeRange.min)
  /\ JGt(defaultTimeRange.max, lastZoom.before.max)

\* C15 (as claimed): after a zoom on a series with a defined default range,
\* minSpanFloor <= span <= defaultSpan.
SpanAtLeastFloor ==
  JustZoomed =>
    /\ ~JGt(MinSpanFloor(defaultTimeRange), Span(xRange))
    /\ ~JGt(Span(xRange), Span(defaultTimeRange))

\* C15 (amended): after a zoom on a series with a defined default range,
\* min(minSpanFloor, defaultSpan) <= span <= defaultSpan.
SpanWithinBounds ==
  JustZoomed =>
    /\ ~JGt(JMin(MinSpanFloor(defaultTimeRange), Span(defaultTimeRange)), Span(xRange))
    /\ ~JGt(Span(xRange), Span(defaultTimeRange))

\* a zoom-in whose target span was below the floor stopped at the floor
SpanFloorWitness ==
  /\ JustZoomed
  /\ JGt(MinSpanFloor(defaultTimeRange), JDiv(Span(lastZoom.before), lastZoom.factor))
  /\ Span(xRange) = MinSpanFloor(defaultTimeRange)
  /\ JGt(Span(defaultTimeRange), Span(xRange))

\* the span of r lies strictly between the floor and the default span
Unclamped(def, r) ==
  /\ JGt(Span(r), MinSpanFloor(def)) /\ JGt(Span(def), Span(r))

\* lastZoom holds zoom(f) followed at once by zoom(1/f) on the same series
RoundTrip ==
  /\ lastZoom.prev.factor.t = "num"
  /\ lastZoom.factor = JDiv(Num(1), lastZoom.prev.factor)
  /\ lastZoom.def = lastZoom.prev.def
  /\ lastZoom.before = lastZoom.prev.after

\* C16: zoom(f) followed by zoom(1/f) returns the span to what it was
\* before the two, provided the span in between was not clamped to the
\* floor or to the default span.
ZoomRoundTrip ==
  (RoundTrip /\ Unclamped(lastZoom.def, lastZoom.prev.after)) =>
     Span(lastZoom.after) = Span(lastZoom.prev.before)

\* a panned, zoomed window was zoomed out by 1/1.4 and back in by 1.4; the
\* zoom-out was shifted at an edge, so the window moved but not its span
RoundTripWitness ==
  /\ RoundTrip /\ Unclamped(lastZoom.def, lastZoom.prev.after)
  /\ lastZoom.factor = IN_FACTOR
  /\ lastZoom.prev.before # lastZoom.def
  /\ Span(lastZoom.after) = Span(lastZoom.prev.before)
  /\ lastZoom.after # lastZoom.prev.before

(***************************************************************************)
(* Properties of the overlay list.                                         *)
(***************************************************************************)
\* the step removes the overlay added last, from the state its add left
RemovesLastAdded ==
  /\ lastAdd.ov # 0
  /\ overlays = lastAdd.ovsAfter
  /\ chartDatasets = lastAdd.after
  /\ HasOverlay(overlays, lastAdd.ov)
  /\ ~HasOverlay(overlays', lastAdd.ov)

\* C17 (as claimed): adding an overlay and then removing it returns the
\* render dataset list to exactly the list it was before the add.
AddRemoveRestoresList ==
  [][RemovesLastAdded => chartDatasets' = lastAdd.before]_vars

\* C17 (amended): adding an overlay and then removing it returns the overlay
\* set to what it was before the add, and the render list to the price
\* series followed by the current datasets of those overlays, in order, with
\* no dataset of the removed overlay; that is the list before the add when
\* that list was up to date.
AddRemoveRestoresOverlays ==
  [][RemovesLastAdded =>
        /\ overlays' = lastAdd.ovsBefore
        /\ chartDatasets' = RenderDatasets(baseHistory, lastAdd.ovsBefore)
        /\ \A k \in 1..Len(chartDatasets') : chartDatasets'[k].ov # lastAdd.ov
        /\ (lastAdd.before = RenderDatasets(baseHistory, lastAdd.ovsBefore)
              => chartDatasets' = lastAdd.before)]_vars

\* a second overlay was added next to the first and removed again: the list
\* is the one from before the add, the price series and the first overlay
AddRemoveWitness ==
  /\ lastAdd.ov = 2
  /\ ~HasOverlay(overlays, 2)
  /\ overlays = lastAdd.ovsBefore
  /\ Len(overlays) = 1
  /\ chartDatasets = lastAdd.before
  /\ Len(lastAdd.after) = 3

\* C18: the render list starts with the price series, followed by the
\* overlay datasets only, in strictly ascending id order (the order in which
\* the overlays were inserted), whatever recomputes and removals happened.
RenderOrder ==
  Len(chartDatasets) > 0 =>
    /\ chartDatasets[1].type = "price"
    /\ \A k \in 2..Len(chartDatasets) : chartDatasets[k].type # "price"
    /\ \A i, j \in 2..Len(chartDatasets) :
          i < j => chartDatasets[i].ov < chartDatasets[j].ov

\* two overlays were recomputed after a history load and redrawn: the list
\* is the price series, overlay 1, overlay 2, both with recomputed datasets
RenderOrderWitness ==
  /\ Len(overlays) = 2 /\ Len(chartDatasets) = 3
  /\ overlays[1].settled = "ok" /\ overlays[2].settled = "ok"
  /\ chartDatasets = <<PriceDataset(baseHistory), overlays[1].dataset, overlays[2].dataset>>
  /\ chartDatasets[2].req > 3 /\ chartDatasets[3].req > 3
  /\ chartDatasets[2].ov = 1 /\ chartDatasets[3].ov = 2

\* C19: every step keeps the overlay ids distinct and ascending in insertion
\* order and below the counter; an overlay that enters the map gets the
\* counter's value, and the counter never decreases, so no id is reused
\* after a removal or when adds complete in another order than submitted.
OverlayIdsFresh ==
  [][/\ overlayCounter' >= overlayCounter
     /\ \A k \in 1..Len(overlays') :
          /\ overlays'[k].id < overlayCounter'
          /\ ~HasOverlay(overlays, overlays'[k].id) =>
                (overlays'[k].id = overlayCounter /\ overlayCounter' = overlayCounter + 1)
     /\ \A i, j \in 1..Len(overlays') :
          i < j => overlays'[i].id < overlays'[j].id]_vars

\* two adds were in flight together; the one submitted second completed
\* first and got id 1, that overlay was removed, and the first submission
\* then got id 2
OverlayIdsWitness ==
  /\ Len(overlays) = 1
  /\ overlays[1].id = 2
  /\ overlays[1].dataset.req = 2
  /\ overlayCounter = 3
  /\ lastAdd.ov = 2 /\ lastAdd.ovsBefore = <<>>

\* a period input the claims call valid for RSI: an integer above 1
ValidRsiPeriod(x) == IsInteger(x) /\ x.n > 1

OverlayPeriodWithinBounds ==
  \A k \in 1..Len(overlays) : overlays[k].window >= 2 /\ overlays[k].window <= 400

\* the RSI panel is enabled: the toggle is checked and the panel is shown
RsiPanelEnabled == rsiToggle /\ ~rsiHidden

OverlayFetchPending == \E q \in inflight : q.kind = "overlay"

\* the requests issued by the step
Issued == inflight' \ inflight

\* C22: every successful history reload is followed by a recompute request
\* for each overlay of the set and, when the RSI panel is enabled, by an RSI
\* request, all of them issued after the new base series was stored; when
\* every fetch is answered, the price chart is eventually rendered with the
\* settled overlays
ReloadRefreshesOverlaysAndRsi ==
  /\ [][\A r \in inflight : HistoryLoaded(r) =>
          /\ baseHistory' = [iv |-> r.iv, points |-> HistoryPoints(r.iv)]
          /\ \A k \in 1..Len(overlays) :
               \E q \in Issued : q.kind = "overlay" /\ q.ov = overlays[k].id
          /\ (Len(overlays) = 0 /\ RsiPanelEnabled) =>
               \E q \in Issued : q.kind = "rsi"]_vars
  /\ [][\A r \in inflight :
          ( /\ OverlayRecomputed(r) \/ OverlayRecomputeFailed(r)
            /\ BatchSettled(r)
            /\ RsiPanelEnabled ) =>
               \E q \in Issued : q.kind = "rsi"]_vars
  /\ OverlayFetchPending ~>
       (~OverlayFetchPending /\ chartDatasets = RenderDatasets(baseHistory, overlays))

\* C23: an interval change issues a history request for the new interval,
\* and every step that completes a history load, with a result or a
\* failure, sets defaultTimeRange to the range of the timestamps of the new
\* base series and the viewport to that default range
HistoryLoadResetsViewport ==
  [][ /\ currentInterval' # currentInterval =>
           \E q \in Issued : q.kind = "history" /\ q.iv = currentInterval'
      /\ \A r \in inflight :
           (r.kind = "history" /\ r \notin inflight') =>
              /\ defaultTimeRange' = TimestampRange(baseHistory'.points)
              /\ xRange' = defaultTimeRange' ]_vars

\* a zoomed viewport was discarded by the load of another interval
ZoomDiscardedWitness ==
  /\ lastZoom.def # NoRange
  /\ lastZoom.after # lastZoom.def
  /\ currentInterval # "1d"
  /\ baseHistory.iv = currentInterval
  /\ defaultTimeRange # NoRange
  /\ defaultTimeRange # lastZoom.def
  /\ xRange = defaultTimeRange

\* the step completes an add or a recompute, or changes the overlay set or
\* the render list, and completes no history load
OverlayActivity ==
  /\ \A r \in inflight : r.kind = "history" => r \in inflight'
  /\ \/ \E r \in inflight : r.kind \in {"add", "overlay"} /\ r \notin inflight'
     \/ overlays' # overlays
     \/ chartDatasets' # chartDatasets

\* C24: adding an overlay, removing an overlay and completing an overlay
\* recompute leave defaultTimeRange and the viewport range, zoomed or not,
\* unchanged
OverlayActivityKeepsViewport ==
  [][OverlayActivity => UNCHANGED <<defaultTimeRange, xRange>>]_vars

\* an overlay was added while the chart was zoomed and the zoomed range is
\* still shown
AddWhileZoomedWitness ==
  /\ lastAdd.ov # 0
  /\ HasOverlay(overlays, lastAdd.ov)
  /\ chartDatasets = lastAdd.after
  /\ defaultTimeRange # NoRange
  /\ lastAdd.range # NoRange
  /\ lastAdd.range # defaultTimeRange
  /\ xRange = lastAdd.range

\* C25: while defaultTimeRange is undefined (a base series with fewer than
\* two distinct timestamps) a zoom, in or out, leaves the viewport range as
\* it was
ZoomWithoutDefaultRangeIsNoOp ==
  [][(zooms' = zooms + 1 /\ defaultTimeRange = NoRange) => xRange' = xRange]_vars

\* every zoom so far met an undefined default range, and the series shown
\* has a single point
ZoomWithoutDefaultRangeWitness ==
  /\ zooms >= 1
  /\ lastZoom = NoZoom
  /\ Len(baseHistory.points) = 1
  /\ inflight = {}
  /\ defaultTimeRange = NoRange
  /\ xRange = NoRange

\* C26: when the add-stock handler has reported success, a price update was
\* issued by that handler run
AddTriggersPriceUpdate ==
  formMessage.text = "Stock added." => formMessage.run \in priceRuns

\* clamp(x, lo, hi) read as min(max(x, lo), hi)
Clamp(x, lo, hi) == JMin(JMax(x, lo), hi)

\* the span the claims give a zoom: clamp(s / factor, minSpanFloor, defaultSpan)
ClaimedSpan(z) ==
  Clamp(JDiv(Span(z.before), z.factor), MinSpanFloor(z.def), Span(z.def))

\* C27: a zoom by factor on a viewport of span s leaves a viewport of span
\* clamp(s / factor, minSpanFloor, defaultSpan), and the viewport is exactly
\* the default range when that span is not below the default span
ZoomSpanIsClamped ==
  lastZoom # NoZoom =>
    /\ Span(lastZoom.after) = ClaimedSpan(lastZoom)
    /\ ~JGt(Span(lastZoom.def), ClaimedSpan(lastZoom)) => lastZoom.after = lastZoom.def

\* a zoom-in whose span was s / factor, then a zoom-out whose target span
\* exceeded the default span and restored the default range
ZoomSpanWitness ==
  /\ JustZoomed
  /\ lastZoom.prev.factor = IN_FACTOR
  /\ lastZoom.prev.def = lastZoom.def
  /\ Span(lastZoom.prev.after) = JDiv(Span(lastZoom.prev.before), IN_FACTOR)
  /\ lastZoom.before = lastZoom.prev.after
  /\ lastZoom.factor = OUT_FACTOR
  /\ JGt(JDiv(Span(lastZoom.before), OUT_FACTOR), Span(lastZoom.def))
  /\ xRange = defaultTimeRange

\* the window of the claimed span centred on the midpoint of the range the
\* zoom z started from
Recentred(z) ==
  LET mid == JAdd(z.before.min, JDiv(Span(z.before), Num(2)))
      half == JDiv(ClaimedSpan(z), Num(2))
  IN  [min |-> JSub(mid, half), max |-> JAdd(mid, half)]

\* C28: a zoom that leaves a span below the default span shows the window
\* of that span centred on the midpoint of the range before; when that
\* window would cross an edge of the default range, the window shown has
\* the same span and touches that edge
ZoomRecentresAndShifts ==
  (lastZoom # NoZoom /\ JGt(Span(lastZoom.def), ClaimedSpan(lastZoom))) =>
    LET w == Recentred(lastZoom)
        def == lastZoom.def
        after == lastZoom.after
    IN  /\ Span(after) = ClaimedSpan(lastZoom)
        /\ Inside(def, w) => after = w
        /\ JGt(def.min, w.min) => after.min = def.min
        /\ JGt(w.max, def.max) => after.max = def.max

\* a zoom-out of a panned window was shifted up: the recentred window began
\* before the default range, the window shown begins at its lower edge
ShiftedWitness ==
  /\ JustZoomed
  /\ JGt(Span(lastZoom.def), ClaimedSpan(lastZoom))
  /\ JGt(lastZoom.def.min, Recentred(lastZoom).min)
  /\ JGt(lastZoom.before.min, lastZoom.def.min)
  /\ xRange.min = defaultTimeRange.min
  /\ Span(xRange) = ClaimedSpan(lastZoom)

\* the largest period the chart page accepts for an indicator
PeriodBound(f) == IF f = "rsi" THEN 100 ELSE 400

\* C29: a period below 2 or above the bound of the indicator yields an
\* error and never a computed series; here the part every error outcome
\* implies: after the chart page built an indicator from an invalid period
\* input, the series holds no computed value
InvalidPeriodYieldsNoSeries ==
  (fn # "none" /\ (period < 2 \/ period > PeriodBound(fn))) =>
     \A i \in 1..Len(out) : IsAbsent(out[i])

\* the gain and the loss of the difference at index i
GainAt(vals, i) == JMax(Num(0), Change(vals, i))
LossAt(vals, i) == JMax(Num(0), JNeg(Change(vals, i)))

\* the sum of f(lo), ..., f(hi)
RECURSIVE WindowSumOf(_, _, _)
WindowSumOf(f(_), lo, hi) ==
  IF lo > hi THEN Num(0) ELSE JAdd(f(lo), WindowSumOf(f, lo + 1, hi))

\* Wilder's averages at index i >= p: the mean of the first p gains (losses)
\* at i = p, then (previous * (p - 1) + current) / p
RECURSIVE AvgGainRef(_, _, _)
AvgGainRef(vals, p, i) ==
  IF i <= p
    THEN JDiv(WindowSumOf(LAMBDA j : GainAt(vals, j), 1, p), Num(p))
    ELSE JDiv(JAdd(JMul(AvgGainRef(vals, p, i - 1), Num(p - 1)), GainAt(vals, i)), Num(p))

RECURSIVE AvgLossRef(_, _, _)
AvgLossRef(vals, p, i) ==
  IF i <= p
    THEN JDiv(WindowSumOf(LAMBDA j : LossAt(vals, j), 1, p), Num(p))
    ELSE JDiv(JAdd(JMul(AvgLossRef(vals, p, i - 1), Num(p - 1)), LossAt(vals, i)), Num(p))

\* the RSI of an average gain and an average loss
RSIOf(g, l) ==
  IF JIsZero(l) THEN Num(100)
  ELSE JSub(Num(100), JDiv(Num(100), JAdd(Num(1), JDiv(g, l))))

\* C30: for a series longer than period, the RSI output is absent below
\* index period; at index period it is the RSI of the mean gain and mean
\* loss of the first period differences; at every later index it is the RSI
\* of the Wilder-smoothed averages
RSIWindowing ==
  (fn = "rsi" /\ period >= 2 /\ Len(values) > period) =>
     /\ Len(out) = Len(values)
     /\ \A i \in 0..(Len(values) - 1) :
          IF i < period
            THEN At(out, i) = Null
            ELSE At(out, i) = RSIOf(AvgGainRef(values, period, i),
                                    AvgLossRef(values, period, i))

\* a series with a first output and a smoothed output after it, both
\* strictly inside (0, 100) and different
RSIWindowingWitness ==
  /\ fn = "rsi" /\ period >= 2 /\ Len(values) > period + 1
  /\ AllNumeric(values)
  /\ At(out, period).t = "num" /\ At(out, period + 1).t = "num"
  /\ At(out, period).n > 0 /\ At(out, period).n < 100 * At(out, period).d
  /\ At(out, period + 1).n > 0 /\ At(out, period + 1).n < 100 * At(out, period + 1).d
  /\ At(out, period) # At(out, period + 1)

\* the input value at index i is present and the one before it is absent
AfterGap(vals, i) == i >= 1 /\ ~IsAbsent(At(vals, i)) /\ IsAbsent(At(vals, i - 1))

\* v smoothed against the carried value c: v * k + c * (1 - k), k = 2/(p+1)
SmoothedAgainst(v, c, p) ==
  JAdd(JDiv(JMul(v, Num(2)), Num(p + 1)), JDiv(JMul(c, Num(p - 1)), Num(p + 1)))

\* C31: at every index whose input value is absent the EMA output is the
\* output of the index before (null at index 0), and the first present
\* value after a gap is smoothed against that carried output (it seeds the
\* EMA when nothing was carried)
EMAGapCarriesForward ==
  (fn = "ema" /\ period >= 2) =>
     \A i \in 0..(Len(values) - 1) :
        /\ IsAbsent(At(values, i)) =>
             At(out, i) = (IF i = 0 THEN Null ELSE At(out, i - 1))
        /\ AfterGap(values, i) =>
             At(out, i) = (IF At(out, i - 1) = Null
                             THEN At(values, i)
                             ELSE SmoothedAgainst(At(values, i), At(out, i - 1), period))

\* a gap between two present values: the output is carried over the gap
\* and the value after it is smoothed, not taken as it is
EMAGapWitness ==
  /\ fn = "ema" /\ period >= 2
  /\ \E i \in 1..(Len(values) - 2) :
        /\ ~IsAbsent(At(values, i - 1))
        /\ IsAbsent(At(values, i))
        /\ ~IsAbsent(At(values, i + 1))
        /\ At(out, i).t = "num"
        /\ At(out, i) = At(out, i - 1)
        /\ At(out, i + 1) # At(values, i + 1)
        /\ At(out, i + 1) # At(out, i)

\* no history, overlay-add or overlay-recompute fetch is in flight
OverlayPipelineIdle ==
  ~\E r \in inflight : r.kind \in {"history", "add", "overlay"}

\* C32: while no history, overlay-add or overlay-recompute request is in
\* flight and a base series is displayed, every overlay dataset of the
\* render list was computed for the interval of that base series
OverlayIntervalMatchesBase ==
  (OverlayPipelineIdle /\ baseHistory # NoHistory) =>
     \A k \in 1..Len(chartDatasets) :
        chartDatasets[k].type # "price" => chartDatasets[k].iv = baseHistory.iv

\* C33: the RSI panel is never visible while the RSI toggle is unchecked
RsiPanelHiddenWhenToggleOff == ~rsiToggle => rsiHidden

\* the ids of the overlays removed so far: every id below the counter was
\* given to an overlay, and those no longer in the map were removed
RemovedOverlays == {id \in 1..(overlayCounter - 1) : ~HasOverlay(overlays, id)}

\* C34: once an overlay was removed, its id stays removed and no render
\* list holds a dataset for it, whatever recompute of it was in flight
RemovedOverlayNeverReappears ==
  /\ [](\A k \in 1..Len(chartDatasets) : chartDatasets[k].ov \notin RemovedOverlays)
  /\ [][\A id \in RemovedOverlays :
          /\ id \in RemovedOverlays'
          /\ \A k \in 1..Len(chartDatasets') : chartDatasets'[k].ov # id]_vars

\* an overlay was removed while its recompute was in flight
RemovedWhileRecomputingWitness ==
  \E r \in inflight :
     /\ r.kind = "overlay"
     /\ r.ov \in RemovedOverlays
     /\ \A k \in 1..Len(chartDatasets) : chartDatasets[k].ov # r.ov

\* C35: a failed overlay add leaves the overlay counter, the overlay set
\* and the render list unchanged; the answer to an add changes them all
\* together or not at all, and an overlay enters the set only with the
\* fresh id and the dataset of the add that was answered
FailedAddChangesNothing ==
  [][\A r \in inflight :
        /\ OverlayAddFailed(r) => UNCHANGED <<overlayCounter, overlays, chartDatasets>>
        /\ (r.kind = "add" /\ r \notin inflight') =>
             \/ UNCHANGED <<overlayCounter, overlays, chartDatasets>>
             \/ /\ overlayCounter' = overlayCounter + 1
                /\ Len(overlays') = Len(overlays) + 1
                /\ SubSeq(overlays', 1, Len(overlays)) = overlays
                /\ overlays'[Len(overlays')].id = overlayCounter
                /\ overlays'[Len(overlays')].dataset.req = r.id
                /\ chartDatasets' = RenderDatasets(baseHistory, overlays')
        /\ (\A q \in inflight : q.kind = "add" => q \in inflight')
             => \A k \in 1..Len(overlays') : HasOverlay(overlays, overlays'[k].id)]_vars

\* the only command so far was an overlay add, it was answered, and no id
\* was given out: the add failed
FailedAddWitness ==
  /\ cmds = 1 /\ currentInterval = "1d"
  /\ ~\E r \in inflight : r.kind = "add"
  /\ baseHistory # NoHistory
  /\ overlayCounter = 1 /\ overlays = <<>>
  /\ chartDatasets = <<PriceDataset(baseHistory)>>

(***************************************************************************)
(* The search box.                                                         *)
(***************************************************************************)
\* the search requests whose handler finishes in this step
SearchFinished ==
  {r \in searchFetches : \A q \in searchFetches' : q.id # r.id}

\* C36: the outcome of a search request whose query is no longer the
\* trimmed, upper-cased search input never changes the suggestion list.
StaleSearchOutcomeIsInert ==
  [][\A r \in SearchFinished :
       r.query # TrimUpper(searchInput) => searchList' = searchList]_vars

\* the search requests in flight that have not been aborted
LiveSearches == {r \in searchFetches : ~r.aborted}

\* C37: at most one search request that has not been aborted is in flight,
\* and searchController refers to it.
SingleLiveSearch ==
  /\ Cardinality(LiveSearches) <= 1
  /\ \A r \in LiveSearches : searchController = r.id

(***************************************************************************)
(* The Refresh Prices button.                                              *)
(***************************************************************************)
\* a price update is in flight
PriceUpdateInFlight == \E r \in listFetches : r.kind = "prices"

\* C38: the Refresh Prices button is disabled exactly while a price update
\* is in flight.
RefreshDisabledWhileUpdating == refreshDisabled <=> PriceUpdateInFlight

(***************************************************************************)
(* computeSMA over a series with gaps.                                     *)
(***************************************************************************)
\* the input at index j, when it is present
PresentValue(j) == IF IsAbsent(At(values, j)) THEN Num(0) ELSE At(values, j)

\* an absent value lies in the window lo..hi
GapInWindow(lo, hi) == \E j \in lo..hi : IsAbsent(At(values, j))

\* C39: from index period - 1 on, computeSMA's output is the sum of the
\* present values of the window divided by the period, whether the window
\* holds absent values or has moved past them.
SMAGapCountsAsZero ==
  (fn = "sma" /\ period >= 2) =>
     \A i \in (period - 1)..(Len(values) - 1) :
        (\E j \in 0..i : IsAbsent(At(values, j))) =>
           /\ At(out, i).t = "num"
           /\ At(out, i) = JDiv(WindowSumOf(PresentValue, i - period + 1, i),
                                Num(period))

\* a window that holds a gap next to a present value other than 0, and a
\* later window that has moved past the gap
SMAGapWitness ==
  /\ fn = "sma" /\ period >= 2
  /\ \E i \in (period - 1)..(Len(values) - 2) :
        /\ GapInWindow(i - period + 1, i)
        /\ At(out, i).t = "num" /\ At(out, i) # Num(0)
        /\ \E k \in (i + 1)..(Len(values) - 1) :
              /\ ~GapInWindow(k - period + 1, k)
              /\ At(out, k).t = "num" /\ At(out, k) # Num(0)

====
